---- MODULE Spec2Model ----
(***************************************************************************)
(* Belote Live: the deal engine (startNewGame, chooseTrump, dealSecondPass, *)
(* validatePlay, playCard, computeTrickWinner) and the message handlers    *)
(* that drive it for one table whose four seats are taken.                 *)
(***************************************************************************)
EXTENDS Integers, Sequences, FiniteSets, TLC

VARIABLES
    gameState,   \* room.gameState: NoGame before start_game, else a GameState
    playedBy,    \* history: per seat, the cards it has played in this deal
    wonCards,    \* history: the cards of the completed tricks of this deal
    tTrump,      \* trick evaluator study: trump suit
    tTrick,      \* trick evaluator study: the trick being built
    tWinner,     \* trick evaluator study: computeTrickWinner of tTrick
    vState,      \* legality study: the GameState handed to validatePlay
    vPlayer,     \* legality study: the acting player
    vVerdict,    \* legality study: validatePlay of every card, as a function
    matchScores, \* match study: the cumulative scores of the match
    dealNumber,  \* match study: the number of the deal, from 1
    lastEvent,   \* match study: history, the kind of the last command accepted
    belote,      \* match study: the belote announcement of the deal
    clients,     \* tables: the clients map, a session per connected client id
    rooms        \* tables: the rooms map, a room per room code in the registry

vars == <<gameState, playedBy, wonCards, tTrump, tTrick, tWinner, vState, vPlayer, vVerdict,
          matchScores, dealNumber, lastEvent, belote, clients, rooms>>
engineVars == <<gameState, playedBy, wonCards>>
trickVars == <<tTrump, tTrick, tWinner>>
legalVars == <<vState, vPlayer, vVerdict>>
matchVars == <<matchScores, dealNumber, lastEvent, belote>>
roomVars == <<clients, rooms>>

\* ---------------------------------------------------------------- bounds
\* number of random sources the shuffle is drawn from
MaxSeed == 2
\* accepted plays of a deal at which the client chooses among several cards
MaxFreePlays == 4
\* how many of the legal cards of the hand the client chooses among
MaxPick == 2
\* trick evaluator study: the tricks are built from the first MaxTrickDeck cards of TrickDeck
MaxTrickDeck == 10
\* legality study: the trick is built from the first MaxLaid cards of LaidPool,
\* the hand from the first MaxHeld cards of HeldPool, and holds at most MaxHand cards
MaxLaid == 6
MaxHeld == 6
MaxHand == 3
\* match study: the number of deals started by start_game
MaxDeals == 2
\* tables: the number of client ids and the number of room codes in use
MaxClients == 5
MaxRooms == 2
\* tables: the clients of the lowest MaxMovers ids join any room and disconnect
\* at will, the others join the first room code and stay
MaxMovers == 1
\* one table: the number of cards played in its deal
MaxTablePlays == 2

\* ------------------------------------------------------- types / sentinels
Undefined == "undefined"          \* trumpSuit?: Suit left undefined
Null == "null"                    \* proposedTrump: null, validatePlay: null
NoPlayer == -1                    \* biddingPlayer: null, winner/trumpChooser undefined
NoCard == [suit |-> Null, rank |-> Null]               \* turnedCard: null
NoTrick == [cards |-> <<>>, leader |-> NoPlayer, winner |-> NoPlayer]  \* trick: null

ALL_PLAYERS == <<0, 1, 2, 3>>
Players == {0, 1, 2, 3}
ALL_SUITS == <<"C", "D", "H", "S">>
Suits == {"C", "D", "H", "S"}
ALL_RANKS == <<"7", "8", "9", "J", "Q", "K", "10", "A">>
Ranks == {"7", "8", "9", "J", "Q", "K", "10", "A"}
Cards == [suit : Suits, rank : Ranks]

Range(s) == {s[i] : i \in 1..Len(s)}

\* Array.prototype.indexOf, 0-based, -1 when absent
IndexOf(s, x) == IF \E i \in 1..Len(s) : s[i] = x
                 THEN (CHOOSE i \in 1..Len(s) : s[i] = x /\ \A j \in 1..(i-1) : s[j] # x) - 1
                 ELSE -1

\* splice that removes nothing
RemoveAt_keeps(s, i) == s

RemoveAt(s, i) == SubSeq(s, 1, i-1) \o SubSeq(s, i+1, Len(s))

createDeck32 == [k \in 1..32 |-> [suit |-> ALL_SUITS[((k-1) \div 8) + 1],
                                  rank |-> ALL_RANKS[((k-1) % 8) + 1]]]

\* Math.floor(Math.random() * (i + 1)): the draw made at index i by source seed
RandomIndex(seed, i) == (seed * (i * i + 3 * i + 7) + 11 * seed * seed) % (i + 1)

\* Fisher-Yates: for i = n-1 down to 1, swap a[i] and a[j], j random in 0..i
RECURSIVE fisherYates(_, _, _)
fisherYates(a, seed, i) ==
    IF i < 1 THEN a
    ELSE LET j == RandomIndex(seed, i)
             b == [a EXCEPT ![i+1] = a[j+1], ![j+1] = a[i+1]]
         IN fisherYates(b, seed, i - 1)

shuffle(array, seed) == fisherYates(array, seed, Len(array) - 1)

\* shuffle(createDeck32()), for each source of draws
shuffledDeck == [seed \in 1..MaxSeed |-> shuffle(createDeck32, seed)]

NoGame == [phase |-> "NoGame", dealer |-> NoPlayer, currentPlayer |-> NoPlayer,
           deck |-> <<>>, hands |-> [p \in Players |-> <<>>],
           turnedCard |-> NoCard, proposedTrump |-> Null,
           trumpSuit |-> Undefined, trumpChooser |-> NoPlayer,
           biddingPlayer |-> NoPlayer, passesInCurrentRound |-> 0,
           trick |-> NoTrick, scores |-> [team0 |-> 0, team1 |-> 0]]

asideDeck_keepsTurned(rest) == rest

\* the deck after turnedCard = deck.shift()
asideDeck(rest) == IF Len(rest) > 0 THEN Tail(rest) ELSE rest

\* hands[pid] = deck.splice(0, 5) for pid = 0..3, then turnedCard = deck.shift()
startNewGame(dealer, seed) ==
    LET deck == shuffledDeck[seed]
        hands == [p \in Players |-> SubSeq(deck, 5 * p + 1, 5 * p + 5)]
        rest == SubSeq(deck, 21, Len(deck))
        turnedCard == IF Len(rest) > 0 THEN Head(rest) ELSE NoCard
        proposedTrump == IF turnedCard # NoCard THEN turnedCard.suit ELSE Null
        firstToSpeak == (dealer + 1) % 4
    IN [phase |-> "ChoosingTrumpFirstRound",
        dealer |-> dealer,
        currentPlayer |-> firstToSpeak,
        deck |-> asideDeck(rest),
        hands |-> hands,
        turnedCard |-> turnedCard,
        proposedTrump |-> proposedTrump,
        trumpSuit |-> Undefined,
        trumpChooser |-> NoPlayer,
        biddingPlayer |-> firstToSpeak,
        passesInCurrentRound |-> 0,
        trick |-> NoTrick,
        scores |-> [team0 |-> 0, team1 |-> 0]]

\* tops the hands up to 7 cards instead of 8
RECURSIVE topUp_short(_, _, _)
topUp_short(hands, deck, k) ==
    IF k > Len(ALL_PLAYERS) THEN [hands |-> hands, deck |-> deck]
    ELSE LET pid == ALL_PLAYERS[k]
             need == 7 - Len(hands[pid])
             n == IF need < 0 THEN 0 ELSE IF need > Len(deck) THEN Len(deck) ELSE need
         IN topUp_short([hands EXCEPT ![pid] = @ \o SubSeq(deck, 1, n)],
                        SubSeq(deck, n + 1, Len(deck)), k + 1)

\* for pid of ALL_PLAYERS: while (hands[pid].length < 8 && deck.length > 0) push(deck.shift())
RECURSIVE topUp(_, _, _)
topUp(hands, deck, k) ==
    IF k > Len(ALL_PLAYERS) THEN [hands |-> hands, deck |-> deck]
    ELSE LET pid == ALL_PLAYERS[k]
             need == 8 - Len(hands[pid])
             n == IF need < 0 THEN 0 ELSE IF need > Len(deck) THEN Len(deck) ELSE need
         IN topUp([hands EXCEPT ![pid] = @ \o SubSeq(deck, 1, n)],
                  SubSeq(deck, n + 1, Len(deck)), k + 1)

\* second deal that forgets to hand the turned card to the taker
dealSecondPass_dropsTurned(state) ==
    LET done == topUp(state.hands, state.deck, 1)
    IN [state EXCEPT !.deck = done.deck, !.hands = done.hands, !.turnedCard = NoCard]

dealSecondPass(state) ==
    LET given == IF state.turnedCard # NoCard /\ state.trumpChooser # NoPlayer
                 THEN [state.hands EXCEPT ![state.trumpChooser] = Append(@, state.turnedCard)]
                 ELSE state.hands
        done == topUp(given, state.deck, 1)
    IN [state EXCEPT !.deck = done.deck, !.hands = done.hands, !.turnedCard = NoCard]

\* payload: {action: "take", suit?} | {action: "pass"}; an absent suit is Undefined
Payloads == [action : {"take"}, suit : Suits \cup {Undefined}]
            \cup [action : {"pass"}, suit : {Undefined}]

takenSuit_payloadFirst(state, payload) ==
    IF payload.suit # Undefined /\ payload.suit # state.proposedTrump THEN payload.suit
    ELSE IF state.phase = "ChoosingTrumpFirstRound" /\ state.proposedTrump # Null
    THEN state.proposedTrump
    ELSE Undefined

\* the trump of a take: the proposed suit in the first round, the payload's
\* suit in the second; Undefined when the take is refused
takenSuit(state, payload) ==
    IF state.phase = "ChoosingTrumpFirstRound"
    THEN (IF state.proposedTrump # Null THEN state.proposedTrump ELSE Undefined)
    ELSE IF payload.suit = Undefined THEN Undefined
    ELSE IF payload.suit = state.proposedTrump THEN Undefined
    ELSE payload.suit

afterTake_keepsProposed(state, player, trumpSuit) ==
    LET nextState == dealSecondPass(
            [state EXCEPT !.trumpSuit = trumpSuit,
                          !.trumpChooser = player,
                          !.biddingPlayer = NoPlayer,
                          !.passesInCurrentRound = 0])
    IN [nextState EXCEPT !.phase = "PlayingTricks",
                         !.currentPlayer = player,
                         !.turnedCard = NoCard]

\* the state returned for an accepted take
afterTake(state, player, trumpSuit) ==
    LET nextState == dealSecondPass(
            [state EXCEPT !.trumpSuit = trumpSuit,
                          !.trumpChooser = player,
                          !.biddingPlayer = NoPlayer,
                          !.passesInCurrentRound = 0])
    IN [nextState EXCEPT !.phase = "PlayingTricks",
                         !.currentPlayer = player,
                         !.turnedCard = NoCard,
                         !.proposedTrump = Null]

toSecondRound_keepsCount(state) ==
    [state EXCEPT !.phase = "ChoosingTrumpSecondRound",
                  !.biddingPlayer = (state.dealer + 1) % 4,
                  !.passesInCurrentRound = state.passesInCurrentRound + 1]

\* the state returned for the fourth pass of the first round
toSecondRound(state) ==
    [state EXCEPT !.phase = "ChoosingTrumpSecondRound",
                  !.biddingPlayer = (state.dealer + 1) % 4,
                  !.passesInCurrentRound = 0]

redeal_nextDealer(state, seed) == startNewGame((state.dealer + 1) % 4, seed)

\* the state returned for the fourth pass of the second round
redeal(state, seed) == startNewGame(state.dealer, seed)

\* the state returned for any other pass
afterPass_sameBidder(state, player, passes) ==
    [state EXCEPT !.passesInCurrentRound = passes]

afterPass(state, player, passes) ==
    [state EXCEPT !.biddingPlayer = (player + 1) % 4,
                  !.passesInCurrentRound = passes]

chooseTrump(state, player, payload, seed) ==
    IF state.phase # "ChoosingTrumpFirstRound" /\ state.phase # "ChoosingTrumpSecondRound"
    THEN state
    ELSE IF state.biddingPlayer # player THEN state
    ELSE IF payload.action = "take" THEN
        LET trumpSuit == takenSuit(state, payload)
        IN IF trumpSuit = Undefined THEN state
           ELSE afterTake(state, player, trumpSuit)
    ELSE
        LET passes == state.passesInCurrentRound + 1
        IN IF state.phase = "ChoosingTrumpFirstRound" /\ passes >= 4
           THEN toSecondRound(state)
           ELSE IF state.phase # "ChoosingTrumpFirstRound" /\ passes >= 4
           THEN redeal(state, seed)
           ELSE afterPass(state, player, passes)

\* ------------------------------------------------------ trick evaluation
NON_TRUMP_ORDER == <<"7", "8", "9", "J", "Q", "K", "10", "A">>
TRUMP_ORDER == <<"7", "8", "Q", "K", "10", "A", "9", "J">>

NON_TRUMP_POINTS == [r \in Ranks |->
    CASE r = "J" -> 2 [] r = "Q" -> 3 [] r = "K" -> 4 [] r = "10" -> 10 [] r = "A" -> 11
      [] OTHER -> 0]

TRUMP_POINTS == [r \in Ranks |->
    CASE r = "9" -> 14 [] r = "J" -> 20 [] r = "Q" -> 3 [] r = "K" -> 4 [] r = "10" -> 10
      [] r = "A" -> 11 [] OTHER -> 0]

\* strength that ignores the trump flag
rankStrength_plain(rank, trump) == IndexOf(NON_TRUMP_ORDER, rank)

rankStrength(rank, trump) == IndexOf(IF trump THEN TRUMP_ORDER ELSE NON_TRUMP_ORDER, rank)

isTrump(card, trumpSuit) == trumpSuit # Undefined /\ card.suit = trumpSuit

\* points that ignore the trump table
cardPoints_plain(card, trumpSuit) == NON_TRUMP_POINTS[card.rank]

cardPoints(card, trumpSuit) ==
    IF isTrump(card, trumpSuit) THEN TRUMP_POINTS[card.rank] ELSE NON_TRUMP_POINTS[card.rank]

RECURSIVE sumPoints(_, _, _)
sumPoints(cards, trumpSuit, i) ==
    IF i > Len(cards) THEN 0
    ELSE cardPoints(cards[i].card, trumpSuit) + sumPoints(cards, trumpSuit, i + 1)

trickPoints(trick, trumpSuit) == sumPoints(trick.cards, trumpSuit, 1)

\* one iteration of the loop of computeTrickWinner: winning against challenger
challenge(winning, challenger, leadSuit, trumpSuit) ==
    LET winningIsTrump == isTrump(winning.card, trumpSuit)
        challengerIsTrump == isTrump(challenger.card, trumpSuit)
        winningFollowsLead == winning.card.suit = leadSuit
        challengerFollowsLead == challenger.card.suit = leadSuit
    IN IF winningIsTrump /\ ~challengerIsTrump THEN winning
       ELSE IF ~winningIsTrump /\ challengerIsTrump THEN challenger
       ELSE IF ~winningFollowsLead /\ challengerFollowsLead THEN challenger
       ELSE IF winningFollowsLead /\ ~challengerFollowsLead THEN winning
       ELSE IF rankStrength(challenger.card.rank, winningIsTrump)
                 > rankStrength(winning.card.rank, winningIsTrump)
            THEN challenger
            ELSE winning

RECURSIVE winningCard(_, _, _)
winningCard(cards, trumpSuit, i) ==
    IF i = 1 THEN cards[1]
    ELSE challenge(winningCard(cards, trumpSuit, i - 1), cards[i], cards[1].card.suit, trumpSuit)

\* trick.cards is never empty where the engine calls it (the empty case throws)
computeTrickWinner(trick, trumpSuit) == winningCard(trick.cards, trumpSuit, Len(trick.cards)).player

\* ------------------------------------------------------- legality oracle
\* teams paired as {0, 3} and {1, 2}
isTeam0_badPair(p) == p = 0 \/ p = 3

isTeam0(p) == p = 0 \/ p = 2

\* a player is only its own partner
sameTeam_self(a, b) == a = b

sameTeam(a, b) == (isTeam0(a) /\ isTeam0(b)) \/ (~isTeam0(a) /\ ~isTeam0(b))

\* looks at the first card of the hand only
hasSuit_firstOnly(hand, suit) == Len(hand) > 0 /\ hand[1].suit = suit

hasSuit(hand, suit) == \E i \in 1..Len(hand) : hand[i].suit = suit

\* trick.cards.filter(tc => tc.card.suit === trumpSuit)
trumpCardsIn(trick, trumpSuit) == SelectSeq(trick.cards, LAMBDA tc : tc.card.suit = trumpSuit)

\* takes the first trump of the trick for the highest
highestTrump_first(tcs, i) == tcs[1]

\* reduce((best, tc) => strength(tc) > strength(best) ? tc : best)
RECURSIVE highestTrump(_, _)
highestTrump(tcs, i) ==
    IF i = 1 THEN tcs[1]
    ELSE LET best == highestTrump(tcs, i - 1)
         IN IF rankStrength(tcs[i].card.rank, TRUE) > rankStrength(best.card.rank, TRUE)
            THEN tcs[i] ELSE best

\* hand.some(c => c.suit === trumpSuit && rankStrength(c.rank, true) > highestStrength)
canOvertrump_always(hand, trumpSuit, highestStrength) == TRUE

canOvertrump(hand, trumpSuit, highestStrength) ==
    \E i \in 1..Len(hand) : hand[i].suit = trumpSuit
                            /\ rankStrength(hand[i].rank, TRUE) > highestStrength

\* section 1 without the shortcut for a lead suit other than trump
validateFollow_noShortcut(trick, trumpSuit, hand, player, card) ==
    LET trumpCardsInTrick == trumpCardsIn(trick, trumpSuit)
    IN IF Len(trumpCardsInTrick) = 0 THEN Null
       ELSE LET highestTrumpInTrick == highestTrump(trumpCardsInTrick, Len(trumpCardsInTrick))
                currentWinner == computeTrickWinner(trick, trumpSuit)
                highestStrength == rankStrength(highestTrumpInTrick.card.rank, TRUE)
                myStrength == rankStrength(card.rank, TRUE)
            IN IF sameTeam(currentWinner, player) THEN Null
               ELSE IF canOvertrump(hand, trumpSuit, highestStrength)
                       /\ myStrength <= highestStrength
               THEN "MustOvertrump"
               ELSE Null

\* section 1 of validatePlay: the card is of the lead suit
validateFollow(trick, trumpSuit, hand, player, card) ==
    LET leadSuit == trick.cards[1].card.suit
        trumpCardsInTrick == trumpCardsIn(trick, trumpSuit)
    IN IF leadSuit # trumpSuit THEN Null
       ELSE IF Len(trumpCardsInTrick) = 0 THEN Null
       ELSE LET highestTrumpInTrick == highestTrump(trumpCardsInTrick, Len(trumpCardsInTrick))
                currentWinner == computeTrickWinner(trick, trumpSuit)
                highestStrength == rankStrength(highestTrumpInTrick.card.rank, TRUE)
                myStrength == rankStrength(card.rank, TRUE)
            IN IF sameTeam(currentWinner, player) THEN Null
               ELSE IF canOvertrump(hand, trumpSuit, highestStrength)
                       /\ myStrength <= highestStrength
               THEN "MustOvertrump"
               ELSE Null

\* section 2 of validatePlay: the card is not of the lead suit
validateOffSuit(trick, trumpSuit, hand, player, card) ==
    LET leadSuit == trick.cards[1].card.suit
        trumpCardsInTrick == trumpCardsIn(trick, trumpSuit)
        anyTrumpInTrick == Len(trumpCardsInTrick) > 0
        currentWinner == computeTrickWinner(trick, trumpSuit)
        winnerIsPartner == sameTeam(currentWinner, player)
    IN IF hasSuit(hand, leadSuit) THEN "MustFollowSuit"
       ELSE IF ~hasSuit(hand, trumpSuit) THEN Null
       ELSE IF ~anyTrumpInTrick
       THEN (IF winnerIsPartner THEN Null
             ELSE IF card.suit # trumpSuit THEN "MustTrump" ELSE Null)
       ELSE LET highestTrumpInTrick == highestTrump(trumpCardsInTrick, Len(trumpCardsInTrick))
                highestStrength == rankStrength(highestTrumpInTrick.card.rank, TRUE)
                highestIsPartner == sameTeam(highestTrumpInTrick.player, player)
            IN IF highestIsPartner THEN Null
               ELSE IF canOvertrump(hand, trumpSuit, highestStrength)
               THEN (IF card.suit # trumpSuit THEN "MustOvertrumpWithTrump"
                     ELSE IF rankStrength(card.rank, TRUE) <= highestStrength
                     THEN "MustOvertrumpStronger"
                     ELSE Null)
               ELSE IF card.suit # trumpSuit THEN "MustUndertrump"
               ELSE Null

\* returns Null when the play is legal, the reason otherwise
validatePlay(state, player, card) ==
    IF state.phase # "PlayingTricks" THEN "WrongPhase"
    ELSE IF player \notin Players THEN "NoHand"
    ELSE LET hand == state.hands[player]
             trick == state.trick
             trumpSuit == state.trumpSuit
         IN IF card \notin Range(hand) THEN "NotInHand"
            ELSE IF trick = NoTrick \/ Len(trick.cards) = 0 \/ Len(trick.cards) = 4 THEN Null
            ELSE LET leadSuit == trick.cards[1].card.suit
                 IN IF trumpSuit = Undefined
                    THEN (IF hasSuit(hand, leadSuit) /\ card.suit # leadSuit
                          THEN "MustFollowSuit" ELSE Null)
                    ELSE IF card.suit = leadSuit
                    THEN validateFollow(trick, trumpSuit, hand, player, card)
                    ELSE validateOffSuit(trick, trumpSuit, hand, player, card)

\* ------------------------------------------------------------- playCard
teamOf_swapped(p) == IF p = 0 \/ p = 2 THEN "team1" ELSE "team0"

teamOf(p) == IF p = 0 \/ p = 2 THEN "team0" ELSE "team1"

awarded_noBonus(trick, trumpSuit, allHandsEmpty) == trickPoints(trick, trumpSuit)

\* points the completed trick adds to the winner's team, last-trick bonus included
awarded(trick, trumpSuit, allHandsEmpty) ==
    trickPoints(trick, trumpSuit) + (IF allHandsEmpty THEN 10 ELSE 0)

\* playCard mutates the state in place; the value returned here is the state
\* after the call (the two throw branches leave it as it was)
phaseAfter_stays(state, allHandsEmpty) == state.phase

\* the phase after a completed trick: Finished once every hand is empty
phaseAfter(state, allHandsEmpty) == IF allHandsEmpty THEN "Finished" ELSE state.phase

seatAfter_same(player) == player

\* the seat that plays after this one in an open trick
seatAfter(player) == (player + 1) % 4

playCard(state, player, card) ==
    IF state.phase # "PlayingTricks" THEN state
    ELSE LET index == IndexOf(state.hands[player], card)
         IN IF index = -1 THEN state
            ELSE LET hands == [state.hands EXCEPT ![player] = RemoveAt(@, index + 1)]
                     base == IF state.trick = NoTrick \/ Len(state.trick.cards) = 4
                             THEN [cards |-> <<>>, leader |-> player, winner |-> NoPlayer]
                             ELSE state.trick
                     trick == [base EXCEPT !.cards = Append(@, [player |-> player, card |-> card])]
                 IN IF Len(trick.cards) < 4
                    THEN [state EXCEPT !.hands = hands, !.trick = trick,
                                       !.currentPlayer = seatAfter(player)]
                    ELSE LET winner == computeTrickWinner(trick, state.trumpSuit)
                             allHandsEmpty == \A pid \in Players : Len(hands[pid]) = 0
                             points == awarded(trick, state.trumpSuit, allHandsEmpty)
                         IN [state EXCEPT
                                !.hands = hands,
                                !.trick = [trick EXCEPT !.winner = winner],
                                !.currentPlayer = winner,
                                !.scores = [@ EXCEPT ![teamOf(winner)] = @ + points],
                                !.phase = phaseAfter(state, allHandsEmpty)]

\* ------------------------------------------------------------- handlers
BiddingPhases == {"ChoosingTrumpFirstRound", "ChoosingTrumpSecondRound"}

NoneYet == [p \in Players |-> <<>>]

RECURSIVE countPlayed(_, _)
countPlayed(pb, k) == IF k > 3 THEN 0 ELSE Len(pb[k]) + countPlayed(pb, k + 1)

\* the cards of the hand of seat that validatePlay accepts, first w in hand order
firstLegal(state, seat, w) ==
    LET hand == state.hands[seat]
        ok == {i \in 1..Len(hand) : validatePlay(state, seat, hand[i]) = Null}
    IN {hand[i] : i \in {k \in ok : Cardinality({j \in ok : j < k}) < w}}

\* cards a client sends in play_card. Out of turn or out of phase every card
\* is refused alike, so one card stands for all. In turn: every card of the
\* hand that is refused, one card that is not in the hand, and of the cards
\* that are accepted the first MaxPick of the hand during the first
\* MaxFreePlays plays of the deal, the first one afterwards
PlayInputs(state, pb, seat) ==
    IF state.phase # "PlayingTricks" \/ state.currentPlayer # seat
    THEN {createDeck32[1]}
    ELSE LET w == IF countPlayed(pb, 0) < MaxFreePlays THEN MaxPick ELSE 1
             hand == state.hands[seat]
             free == firstLegal(state, seat, w)
             refused == {c \in Range(hand) : validatePlay(state, seat, c) # Null}
             absent == {c \in Cards : c \notin Range(hand)}
         IN free \cup refused
            \cup (IF absent = {} THEN {} ELSE {CHOOSE c \in absent : TRUE})

handlePlayCardMessage_anySeat(state, seat, card) ==
    IF state = NoGame THEN state
    ELSE IF state.phase # "PlayingTricks" THEN state
    ELSE IF validatePlay(state, seat, card) # Null THEN state
    ELSE playCard(state, seat, card)

\* handlePlayCardMessage for a seated client of the table: the value of
\* room.gameState after the handler
handlePlayCardMessage(state, seat, card) ==
    IF state = NoGame THEN state
    ELSE IF state.phase # "PlayingTricks" THEN state
    ELSE IF state.currentPlayer # seat THEN state
    ELSE IF validatePlay(state, seat, card) # Null THEN state
    ELSE playCard(state, seat, card)

playAccepted(state, seat, card) ==
    /\ state # NoGame
    /\ state.phase = "PlayingTricks"
    /\ state.currentPlayer = seat
    /\ validatePlay(state, seat, card) = Null

\* handleChooseTrumpMessage for a seated client of the table
handleChooseTrumpMessage(state, seat, payload, seed) ==
    IF state = NoGame THEN state ELSE chooseTrump(state, seat, payload, seed)

handleStartGameMessage_lastDealer(state, seed) == startNewGame(3, seed)

\* handleStartGameMessage for a table with four clients: dealer is seat 0
handleStartGameMessage(state, seed) == startNewGame(0, seed)

\* the messages a handler sends, as [to, type] records. Every seat of the
\* table holds an open client.
send(seat, type) == [to |-> seat, type |-> type]

broadcastGameState(state) ==
    IF state = NoGame THEN {} ELSE {send(p, "game_state") : p \in Players}

\* what handlePlayCardMessage sends
playCardSends(state, seat, card) ==
    IF state = NoGame THEN {send(seat, "error")}
    ELSE IF state.phase # "PlayingTricks" THEN {send(seat, "error")}
    ELSE IF state.currentPlayer # seat THEN {send(seat, "error")}
    ELSE IF validatePlay(state, seat, card) # Null THEN {send(seat, "error")}
    ELSE broadcastGameState(handlePlayCardMessage(state, seat, card))

\* what handleChooseTrumpMessage sends: whatever chooseTrump returns is
\* stored and broadcast
chooseTrumpSends(state, seat, payload, seed) ==
    IF state = NoGame THEN {send(seat, "error")}
    ELSE broadcastGameState(handleChooseTrumpMessage(state, seat, payload, seed))

Seeds == 1..MaxSeed

\* the match-level scores before the first deal
NoMatch == [team0 |-> 0, team1 |-> 0]

\* the belote announcement of a deal in which nothing was announced
NoBelote == [holder |-> NoPlayer, stage |-> 0, points |-> 0, team |-> "none"]

\* the client ids and room codes of the study of the tables
ClientIds == 1..MaxClients
NoClientId == 0                      \* a seat slot holding null

RoomNames == <<"A", "B", "C", "D">>
RoomCodes == {RoomNames[i] : i \in 1..MaxRooms}

\* a client id that is not in the clients map
NoClient == [connected |-> FALSE, nickname |-> "", roomCode |-> Undefined, seat |-> NoPlayer]
NoClients == [c \in ClientIds |-> NoClient]

\* the session of a connection that has joined nothing yet
NewClient == [connected |-> TRUE, nickname |-> "Joueur", roomCode |-> Undefined, seat |-> NoPlayer]

\* a room code that is not in the rooms map
NoRoom == [code |-> "", clients |-> {}, seats |-> [i \in Players |-> NoClientId],
           gameState |-> NoGame]
NoRooms == [r \in RoomCodes |-> NoRoom]

NewRoom(roomCode) == [NoRoom EXCEPT !.code = roomCode]

StartGame ==
    /\ \E seed \in Seeds : gameState' = handleStartGameMessage(gameState, seed)
    /\ playedBy' = NoneYet
    /\ wonCards' = <<>>
    /\ UNCHANGED <<trickVars, legalVars, matchVars, roomVars>>

\* the shuffles a choose_trump can draw: startNewGame is only called by the
\* fourth pass of the second round
Draws(state, seat, payload) ==
    IF /\ state.phase = "ChoosingTrumpSecondRound"
       /\ state.biddingPlayer = seat
       /\ payload.action = "pass"
       /\ state.passesInCurrentRound + 1 >= 4
    THEN Seeds ELSE {1}

ChooseTrump ==
    /\ gameState # NoGame
    /\ \E seat \in Players, payload \in Payloads :
         \E seed \in Draws(gameState, seat, payload) :
            gameState' = handleChooseTrumpMessage(gameState, seat, payload, seed)
    /\ playedBy' = IF gameState'.phase \in BiddingPhases THEN NoneYet ELSE playedBy
    /\ wonCards' = IF gameState'.phase \in BiddingPhases THEN <<>> ELSE wonCards
    /\ UNCHANGED <<trickVars, legalVars, matchVars, roomVars>>

PlayCard ==
    /\ gameState # NoGame
    /\ \E seat \in Players :
         \E card \in PlayInputs(gameState, playedBy, seat) :
            /\ gameState' = handlePlayCardMessage(gameState, seat, card)
            /\ playedBy' = IF playAccepted(gameState, seat, card)
                           THEN [playedBy EXCEPT ![seat] = Append(@, card)]
                           ELSE playedBy
            /\ wonCards' = IF playAccepted(gameState, seat, card)
                              /\ Len(gameState'.trick.cards) = 4
                           THEN wonCards \o [i \in 1..4 |-> gameState'.trick.cards[i].card]
                           ELSE wonCards
    /\ UNCHANGED <<trickVars, legalVars, matchVars, roomVars>>

Idle == [cards |-> <<>>, leader |-> NoPlayer, winner |-> NoPlayer]

Init ==
    /\ gameState = NoGame
    /\ playedBy = NoneYet
    /\ wonCards = <<>>
    /\ tTrump = Undefined /\ tTrick = Idle /\ tWinner = NoPlayer
    /\ vState = NoGame /\ vPlayer = NoPlayer /\ vVerdict = <<>>
    /\ matchScores = NoMatch /\ dealNumber = 0 /\ lastEvent = "none"
    /\ belote = NoBelote
    /\ clients = NoClients /\ rooms = NoRooms

Next == StartGame \/ ChooseTrump \/ PlayCard

Spec == Init /\ [][Next]_vars

\* ------------------------------------------- study of computeTrickWinner
Card(s, r) == [suit |-> s, rank |-> r]

TrickDeck == <<Card("S", "10"), Card("H", "J"), Card("S", "A"), Card("H", "8"),
               Card("H", "9"), Card("H", "A"), Card("S", "7"), Card("D", "K"),
               Card("D", "9"), Card("D", "J"), Card("C", "Q"), Card("C", "10")>>

TrickStudyCards == {TrickDeck[i] : i \in 1..MaxTrickDeck}

\* the next seat lays a card on the trick and the winner so far is computed
TrickLay ==
    /\ Len(tTrick.cards) < 4
    /\ \E c \in TrickStudyCards, leader \in Players :
          /\ Len(tTrick.cards) > 0 => leader = tTrick.leader
          /\ \A i \in 1..Len(tTrick.cards) : tTrick.cards[i].card # c
          /\ tTrick' = [cards |-> Append(tTrick.cards,
                                         [player |-> (leader + Len(tTrick.cards)) % 4,
                                          card |-> c]),
                        leader |-> leader, winner |-> NoPlayer]
          /\ tWinner' = computeTrickWinner(tTrick', tTrump)
    /\ UNCHANGED <<tTrump, engineVars, legalVars, matchVars, roomVars>>

TrickInit ==
    /\ gameState = NoGame /\ playedBy = NoneYet /\ wonCards = <<>>
    /\ tTrump \in Suits /\ tTrick = Idle /\ tWinner = NoPlayer
    /\ vState = NoGame /\ vPlayer = NoPlayer /\ vVerdict = <<>>
    /\ matchScores = NoMatch /\ dealNumber = 0 /\ lastEvent = "none"
    /\ belote = NoBelote
    /\ clients = NoClients /\ rooms = NoRooms

TrickNext == TrickLay

SpecTrick == TrickInit /\ [][TrickNext]_vars

\* ------------------------------------------------- study of validatePlay
LaidPool == <<Card("D", "A"), Card("C", "9"), Card("H", "A"), Card("H", "7"),
              Card("H", "10"), Card("C", "Q"), Card("D", "10"), Card("S", "J")>>

HeldPool == <<Card("C", "7"), Card("C", "J"), Card("D", "K"), Card("C", "8"),
              Card("D", "9"), Card("S", "K"), Card("H", "Q"), Card("C", "A")>>

LaidCards == {LaidPool[i] : i \in 1..MaxLaid}

\* a deal in PlayingTricks under the given trump, nothing played, nothing held
legalBase(trump) == [NoGame EXCEPT !.phase = "PlayingTricks", !.dealer = 0,
                                   !.currentPlayer = 0, !.trumpSuit = trump,
                                   !.trumpChooser = 1]

\* validatePlay of every card of the player's hand
verdicts(state, player) ==
    [c \in Range(state.hands[player]) |-> validatePlay(state, player, c)]

\* a seat lays a card on the trick; the next seat becomes the player to act
LegalLay ==
    /\ Len(vState.trick.cards) < 3
    /\ \A p \in Players : Len(vState.hands[p]) = 0
    /\ \E c \in LaidCards, leader \in Players :
          /\ Len(vState.trick.cards) > 0 => leader = vState.trick.leader
          /\ \A i \in 1..Len(vState.trick.cards) : vState.trick.cards[i].card # c
          /\ LET n == Len(vState.trick.cards)
                 trick == [cards |-> Append(vState.trick.cards,
                                            [player |-> (leader + n) % 4, card |-> c]),
                           leader |-> leader, winner |-> NoPlayer]
                 next == (leader + n + 1) % 4
             IN /\ vState' = [vState EXCEPT !.trick = trick, !.currentPlayer = next]
                /\ vPlayer' = next
                /\ vVerdict' = verdicts(vState', next)
    /\ UNCHANGED <<engineVars, trickVars, matchVars, roomVars>>

\* the player to act is given one more card (in pool order), and every card
\* of the hand is submitted to validatePlay
LegalHold ==
    /\ Len(vState.trick.cards) >= 1
    /\ Len(vState.hands[vPlayer]) < MaxHand
    /\ \E k \in 1..MaxHeld :
          /\ \A i \in 1..Len(vState.hands[vPlayer]) :
                IndexOf(HeldPool, vState.hands[vPlayer][i]) + 1 < k
          /\ vState' = [vState EXCEPT !.hands[vPlayer] = Append(@, HeldPool[k])]
          /\ vPlayer' = vPlayer
          /\ vVerdict' = verdicts(vState', vPlayer)
    /\ UNCHANGED <<engineVars, trickVars, matchVars, roomVars>>

LegalInit ==
    /\ gameState = NoGame /\ playedBy = NoneYet /\ wonCards = <<>>
    /\ tTrump = Undefined /\ tTrick = Idle /\ tWinner = NoPlayer
    /\ vState \in {legalBase(t) : t \in Suits} /\ vPlayer = NoPlayer /\ vVerdict = <<>>
    /\ matchScores = NoMatch /\ dealNumber = 0 /\ lastEvent = "none"
    /\ belote = NoBelote
    /\ clients = NoClients /\ rooms = NoRooms

LegalNext == LegalLay \/ LegalHold

SpecLegal == LegalInit /\ [][LegalNext]_vars

\* ------------------------------------------------------ study of a match
\* Successive deals of one table. The server under study keeps no
\* match-level score: matchScores and dealNumber follow the specification of
\* the deal state, the deals themselves are run by the handlers above.
\* The clients send start_game before the first deal and after a finished
\* one, the bidder passes or takes, and the player in turn plays the first
\* card of the hand that validatePlay accepts.

mergeMatch_crossed(match, scores) ==
    [team0 |-> match.team0 + scores.team1, team1 |-> match.team1 + scores.team0]

\* the match-level scores once a deal has finished
mergeMatch(match, scores) ==
    [team0 |-> match.team0 + scores.team0, team1 |-> match.team1 + scores.team1]

\* the match-level scores after a command that took the deal from before to after
matchAfter(match, before, after) ==
    IF before.phase # "Finished" /\ after.phase = "Finished"
    THEN mergeMatch(match, after.scores)
    ELSE match

\* the bids of the study: a pass, or a take naming the first suit that is
\* not the proposed one
MatchBids(state) ==
    {[action |-> "pass", suit |-> Undefined],
     [action |-> "take",
      suit |-> ALL_SUITS[CHOOSE i \in 1..4 :
                  /\ ALL_SUITS[i] # state.proposedTrump
                  /\ \A j \in 1..(i - 1) : ALL_SUITS[j] = state.proposedTrump]]}

MatchStart ==
    /\ gameState = NoGame \/ gameState.phase = "Finished"
    /\ dealNumber < MaxDeals
    /\ \E seed \in Seeds : gameState' = handleStartGameMessage(gameState, seed)
    /\ playedBy' = NoneYet
    /\ wonCards' = <<>>
    /\ matchScores' = matchScores
    /\ dealNumber' = dealNumber + 1
    /\ lastEvent' = "start"
    /\ belote' = NoBelote
    /\ UNCHANGED <<trickVars, legalVars, roomVars>>

MatchBid ==
    /\ gameState.phase \in BiddingPhases
    /\ \E payload \in MatchBids(gameState) :
         \E seed \in Draws(gameState, gameState.biddingPlayer, payload) :
            /\ gameState' = handleChooseTrumpMessage(gameState, gameState.biddingPlayer,
                                                     payload, seed)
            /\ lastEvent' = IF Draws(gameState, gameState.biddingPlayer, payload) = Seeds
                            THEN "restart" ELSE "bid"
    /\ playedBy' = NoneYet
    /\ wonCards' = <<>>
    /\ matchScores' = matchAfter(matchScores, gameState, gameState')
    /\ belote' = IF gameState'.phase \in BiddingPhases THEN NoBelote ELSE belote
    /\ UNCHANGED <<dealNumber, trickVars, legalVars, roomVars>>

MatchPlay ==
    /\ gameState.phase = "PlayingTricks"
    /\ \E card \in firstLegal(gameState, gameState.currentPlayer, 1) :
          /\ gameState' = handlePlayCardMessage(gameState, gameState.currentPlayer, card)
          /\ playedBy' = [playedBy EXCEPT ![gameState.currentPlayer] = Append(@, card)]
    /\ wonCards' = IF Len(gameState'.trick.cards) = 4
                   THEN wonCards \o [i \in 1..4 |-> gameState'.trick.cards[i].card]
                   ELSE wonCards
    /\ matchScores' = matchAfter(matchScores, gameState, gameState')
    /\ lastEvent' = "play"
    /\ UNCHANGED <<belote, dealNumber, trickVars, legalVars, roomVars>>

MatchNext == MatchStart \/ MatchBid \/ MatchPlay

SpecMatch == Init /\ [][MatchNext]_vars

\* a card of the hand of the seat in turn is accepted: it joins the cards
\* that seat has played
PlaysInTurn ==
    /\ gameState.phase = "PlayingTricks"
    /\ \E card \in Range(gameState.hands[gameState.currentPlayer]) :
          playedBy' = [playedBy EXCEPT ![gameState.currentPlayer] = Append(@, card)]

\* the match when the client seated at currentPlayer, as long as it holds a
\* card, ends up sending one that is accepted
SpecMatchFair == SpecMatch /\ WF_playedBy(PlaysInTurn)

\* ------------------------------------------- study of the belote announcement
\* The server under study has no announce_belote handler: the announcement
\* follows the specification of the command, over the first deal of a match.
\* The announcer is trusted to hold the king and queen of trumps.

announceBelote_anyone(state, b, p) ==
    IF state.phase # "PlayingTricks" \/ state.trumpSuit = Undefined THEN b
    ELSE IF b.stage = 0
    THEN [holder |-> p, stage |-> 1, points |-> 20, team |-> teamOf(p)]
    ELSE IF b.stage = 1 THEN [b EXCEPT !.stage = 2]
    ELSE b

\* the announcement after an announce_belote of seat p
announceBelote(state, b, p) ==
    IF state.phase # "PlayingTricks" \/ state.trumpSuit = Undefined THEN b
    ELSE IF b.stage = 0
    THEN [holder |-> p, stage |-> 1, points |-> 20, team |-> teamOf(p)]
    ELSE IF b.stage = 1 /\ b.holder = p THEN [b EXCEPT !.stage = 2]
    ELSE b

Announce ==
    /\ gameState # NoGame
    /\ \E p \in Players : belote' = announceBelote(gameState, belote, p)
    /\ lastEvent' = IF belote' # belote THEN "announce" ELSE lastEvent
    /\ UNCHANGED <<engineVars, matchScores, dealNumber, trickVars, legalVars, roomVars>>

\* the commands of the first deal
BeloteDeal == MatchNext /\ dealNumber' = 1

BeloteNext == BeloteDeal \/ Announce

SpecBelote == Init /\ [][BeloteNext]_vars

\* ------------------------------------------------------ study of the tables
\* The clients map and the rooms map of the server, under connections,
\* join_room, start_game and disconnections. Deals are started here and not
\* played.

\* roomCode.trim().toUpperCase() and nickname.trim(), on the texts the clients send
Trimmed == <<
    <<"A", "A">>, <<" a", "A">>, <<"B", "B">>, <<"b ", "B">>,
    <<"C", "C">>, <<"c", "C">>, <<"D", "D">>, <<" d ", "D">>,
    <<"  ", "">>, <<"Ana", "Ana">>, <<" Bob ", "Bob">> >>
normalise(text) == Trimmed[CHOOSE i \in 1..Len(Trimmed) : Trimmed[i][1] = text][2]

\* the join_room payloads the clients send: each room code as it is, the
\* first one also in lower case with a blank, and a blank code or nickname
JoinPayloads ==
    {[roomCode |-> r, nickname |-> " Bob "] : r \in RoomCodes \cup {" a", "  "}}
        \cup {[roomCode |-> "A", nickname |-> "  "]}

\* what a handler leaves behind: the two maps and the messages it sent
Outcome(cs, rs, msgs) == [clients |-> cs, rooms |-> rs, sent |-> msgs]

\* the room_update messages of broadcastRoomUpdate
broadcastRoomUpdate(cs, rs, roomCode) ==
    IF rs[roomCode] = NoRoom THEN {}
    ELSE LET members == {c \in rs[roomCode].clients : cs[c].connected}
             players == {[id |-> c, nickname |-> cs[c].nickname, seat |-> cs[c].seat]
                            : c \in members}
         IN {[to |-> c, type |-> "room_update", roomCode |-> roomCode, players |-> players]
                : c \in members}

roomGameState_everyone(cs, room) ==
    IF room.gameState = NoGame THEN {}
    ELSE {[to |-> c, type |-> "game_state", state |-> room.gameState]
             : c \in {m \in ClientIds : cs[m].connected}}

\* the game_state messages of broadcastGameState, to the clients of a room
roomGameState(cs, room) ==
    IF room.gameState = NoGame THEN {}
    ELSE {[to |-> c, type |-> "game_state", state |-> room.gameState]
             : c \in {m \in room.clients : cs[m].connected}}

dropEmpty_never(rs, roomCode) == rs

\* rooms.delete(code) when the last client of the room has left
dropEmpty(rs, roomCode) ==
    IF rs[roomCode].clients = {} THEN [rs EXCEPT ![roomCode] = NoRoom] ELSE rs

vacate_keepsSeat(rs, roomCode, c, seat) ==
    LET room == rs[roomCode]
        left == room.clients \ {c}
    IN dropEmpty([rs EXCEPT ![roomCode] = [room EXCEPT !.clients = left]], roomCode)

\* client c with session seat leaves the room of that code: out of the
\* client set, its seat slot emptied if it holds c, the room deleted if empty
vacate(rs, roomCode, c, seat) ==
    LET room == rs[roomCode]
        left == room.clients \ {c}
        seats == IF seat # NoPlayer /\ room.seats[seat] = c
                 THEN [room.seats EXCEPT ![seat] = NoClientId]
                 ELSE room.seats
    IN dropEmpty([rs EXCEPT ![roomCode] = [room EXCEPT !.clients = left, !.seats = seats]],
                 roomCode)

\* the lowest seat index that is empty or already holds c; NoPlayer if none
lowestSeat(seats, c) ==
    IF \E i \in Players : seats[i] = NoClientId \/ seats[i] = c
    THEN CHOOSE i \in Players :
            /\ seats[i] = NoClientId \/ seats[i] = c
            /\ \A j \in Players : j < i => seats[j] # NoClientId /\ seats[j] # c
    ELSE NoPlayer

isFull_five(room, c) == Cardinality(room.clients) >= 5 /\ c \notin room.clients

\* the table is full for client c
isFull(room, c) == Cardinality(room.clients) >= 4 /\ c \notin room.clients

handleJoinRoomMessage(cs, rs, c, payload) ==
    LET roomCode == normalise(payload.roomCode)
        nickname == normalise(payload.nickname)
    IN IF roomCode = "" \/ nickname = "" THEN Outcome(cs, rs, {send(c, "error")})
       ELSE
       LET created == IF rs[roomCode] = NoRoom
                      THEN [rs EXCEPT ![roomCode] = NewRoom(roomCode)] ELSE rs
       IN IF isFull(created[roomCode], c)
          THEN Outcome(cs, created, {send(c, "error")})
          ELSE
          LET old == cs[c].roomCode
              moves == old # Undefined /\ old # roomCode /\ created[old] # NoRoom
              left == IF moves THEN vacate(created, old, c, cs[c].seat) ELSE created
              toOld == IF moves THEN broadcastRoomUpdate(cs, left, old) ELSE {}
              named == [cs EXCEPT ![c].nickname = nickname, ![c].roomCode = roomCode]
              room == left[roomCode]
              assignedSeat == lowestSeat(room.seats, c)
          IN IF cs[c].seat # NoPlayer
             THEN LET joined == [left EXCEPT ![roomCode].clients = @ \cup {c}]
                  IN Outcome(named, joined,
                             toOld \cup broadcastRoomUpdate(named, joined, roomCode))
             ELSE IF assignedSeat = NoPlayer
             THEN Outcome(named, left, toOld \cup {send(c, "error")})
             ELSE LET seated == [named EXCEPT ![c].seat = assignedSeat]
                      joined == [left EXCEPT ![roomCode].seats[assignedSeat] = c,
                                             ![roomCode].clients = @ \cup {c}]
                  IN Outcome(seated, joined,
                             toOld \cup broadcastRoomUpdate(seated, joined, roomCode))

\* handleStartGameMessage on the rooms map: dealer is seat 0
startGameInRoom(cs, rs, c, seed) ==
    IF cs[c].roomCode = Undefined THEN Outcome(cs, rs, {send(c, "error")})
    ELSE IF rs[cs[c].roomCode] = NoRoom THEN Outcome(cs, rs, {send(c, "error")})
    ELSE IF Cardinality(rs[cs[c].roomCode].clients) # 4
    THEN Outcome(cs, rs, {send(c, "error")})
    ELSE LET started == [rs EXCEPT ![cs[c].roomCode].gameState = startNewGame(0, seed)]
         IN Outcome(cs, started, roomGameState(cs, started[cs[c].roomCode]))

\* handleChooseTrumpMessage on the rooms map: whatever chooseTrump returns
\* for the session seat of the sender is stored and broadcast
chooseTrumpInRoom(cs, rs, c, payload, seed) ==
    IF cs[c].roomCode = Undefined THEN Outcome(cs, rs, {send(c, "error")})
    ELSE IF rs[cs[c].roomCode] = NoRoom \/ rs[cs[c].roomCode].gameState = NoGame
    THEN Outcome(cs, rs, {send(c, "error")})
    ELSE IF cs[c].seat = NoPlayer THEN Outcome(cs, rs, {send(c, "error")})
    ELSE LET bid == [rs EXCEPT ![cs[c].roomCode].gameState =
                                    chooseTrump(@, cs[c].seat, payload, seed)]
         IN Outcome(cs, bid, roomGameState(cs, bid[cs[c].roomCode]))

playCardInRoom_forTurn(cs, rs, c, card) ==
    IF cs[c].roomCode = Undefined THEN Outcome(cs, rs, {send(c, "error")})
    ELSE IF rs[cs[c].roomCode] = NoRoom \/ rs[cs[c].roomCode].gameState = NoGame
    THEN Outcome(cs, rs, {send(c, "error")})
    ELSE LET seat == rs[cs[c].roomCode].gameState.currentPlayer
         IN IF ~playAccepted(rs[cs[c].roomCode].gameState, seat, card)
            THEN Outcome(cs, rs, {send(c, "error")})
            ELSE LET played == [rs EXCEPT ![cs[c].roomCode].gameState =
                                               playCard(@, seat, card)]
                 IN Outcome(cs, played, roomGameState(cs, played[cs[c].roomCode]))

\* handlePlayCardMessage on the rooms map: the card is played for the
\* session seat of the sender when that seat is in turn and the rules accept it
playCardInRoom(cs, rs, c, card) ==
    IF cs[c].roomCode = Undefined THEN Outcome(cs, rs, {send(c, "error")})
    ELSE IF rs[cs[c].roomCode] = NoRoom \/ rs[cs[c].roomCode].gameState = NoGame
    THEN Outcome(cs, rs, {send(c, "error")})
    ELSE IF cs[c].seat = NoPlayer THEN Outcome(cs, rs, {send(c, "error")})
    ELSE IF ~playAccepted(rs[cs[c].roomCode].gameState, cs[c].seat, card)
    THEN Outcome(cs, rs, {send(c, "error")})
    ELSE LET played == [rs EXCEPT ![cs[c].roomCode].gameState =
                                       playCard(@, cs[c].seat, card)]
         IN Outcome(cs, played, roomGameState(cs, played[cs[c].roomCode]))

\* the inbound messages that are not a well-formed command: text that
\* JSON.parse refuses, a type the switch does not know, and commands without
\* their payload or without the card
Malformed ==
    {[type |-> "unparseable", payload |-> FALSE, card |-> FALSE],
     [type |-> "unknown", payload |-> TRUE, card |-> FALSE],
     [type |-> "join_room", payload |-> FALSE, card |-> FALSE],
     [type |-> "play_card", payload |-> FALSE, card |-> FALSE],
     [type |-> "play_card", payload |-> TRUE, card |-> FALSE],
     [type |-> "choose_trump", payload |-> FALSE, card |-> FALSE]}

\* what a handler leaves behind when a TypeError escapes from it: nothing
\* was written or sent before, and nothing catches the error
Thrown(cs, rs) == [clients |-> cs, rooms |-> rs, sent |-> {}, thrown |-> TRUE]

\* what a handler leaves behind when it returns
Returned(outcome) ==
    [clients |-> outcome.clients, rooms |-> outcome.rooms, sent |-> outcome.sent,
     thrown |-> FALSE]

\* the message listener of a connection, on a message of Malformed sent by
\* client c
handleMalformed(cs, rs, c, message) ==
    LET error == Returned(Outcome(cs, rs, {send(c, "error")}))
        inRoom == cs[c].roomCode # Undefined
        state == IF inRoom THEN rs[cs[c].roomCode].gameState ELSE NoGame
        seated == cs[c].seat # NoPlayer
    IN IF message.type \in {"unparseable", "unknown"} THEN error
       ELSE IF message.type = "join_room" THEN Thrown(cs, rs)
       ELSE IF ~inRoom \/ state = NoGame \/ ~seated THEN error
       ELSE IF message.type = "play_card"
       THEN IF state.phase # "PlayingTricks" \/ state.currentPlayer # cs[c].seat
            THEN error
            ELSE IF ~message.payload \/ state.hands[cs[c].seat] # <<>>
            THEN Thrown(cs, rs)
            ELSE error
       ELSE IF state.phase \notin BiddingPhases \/ state.biddingPlayer # cs[c].seat
            THEN Returned(Outcome(cs, rs, roomGameState(cs, rs[cs[c].roomCode])))
            ELSE Thrown(cs, rs)

forget_keeps(cs, c) == cs

\* clients.delete(clientId)
forget(cs, c) == [cs EXCEPT ![c] = NoClient]

handleClientDisconnect_endsDeal(cs, rs, c) ==
    IF ~cs[c].connected THEN Outcome(cs, rs, {})
    ELSE LET gone == forget(cs, c)
         IN IF cs[c].roomCode # Undefined /\ rs[cs[c].roomCode] # NoRoom
            THEN LET left == [vacate(rs, cs[c].roomCode, c, cs[c].seat)
                                 EXCEPT ![cs[c].roomCode].gameState = NoGame]
                 IN Outcome(gone, left, broadcastRoomUpdate(cs, left, cs[c].roomCode))
            ELSE Outcome(gone, rs, {})

handleClientDisconnect(cs, rs, c) ==
    IF ~cs[c].connected THEN Outcome(cs, rs, {})
    ELSE LET gone == forget(cs, c)
         IN IF cs[c].roomCode # Undefined /\ rs[cs[c].roomCode] # NoRoom
            THEN LET left == vacate(rs, cs[c].roomCode, c, cs[c].seat)
                 IN Outcome(gone, left, broadcastRoomUpdate(cs, left, cs[c].roomCode))
            ELSE Outcome(gone, rs, {})

\* the handler ran and left this outcome
Leaves(outcome) ==
    /\ clients' = outcome.clients
    /\ rooms' = outcome.rooms
    /\ UNCHANGED <<engineVars, trickVars, legalVars, matchVars>>

Movers == 1..MaxMovers

\* client ids are interchangeable: they are handed out lowest first
Connect ==
    \E c \in ClientIds :
        /\ ~clients[c].connected
        /\ \A d \in ClientIds : d < c => clients[d].connected
        /\ Leaves(Outcome([clients EXCEPT ![c] = NewClient], rooms, {}))

\* a client joins its first room once the connected clients of lower id
\* have joined theirs
JoinRoom ==
    \E c \in ClientIds, payload \in JoinPayloads :
        /\ clients[c].connected
        /\ \A d \in ClientIds :
              d < c /\ clients[d].connected => clients[d].roomCode # Undefined
        /\ c \notin Movers => normalise(payload.roomCode) \in {"", RoomNames[1]}
        /\ Leaves(handleJoinRoomMessage(clients, rooms, c, payload))

\* the deals of the tables are all dealt from the first shuffle
StartGameInRoom ==
    \E c \in ClientIds :
        /\ clients[c].connected
        /\ Leaves(startGameInRoom(clients, rooms, c, 1))

\* the bids the clients of the tables send: a pass, a take of the turned
\* card, and a take naming one of two suits
RoomBids ==
    {[action |-> "pass", suit |-> Undefined], [action |-> "take", suit |-> Undefined],
     [action |-> "take", suit |-> ALL_SUITS[1]], [action |-> "take", suit |-> ALL_SUITS[2]]}

\* the session of client c names a room with a deal whose bidder is the
\* session seat of c
bidsInTurn(c) ==
    /\ clients[c].connected
    /\ clients[c].roomCode # Undefined
    /\ rooms[clients[c].roomCode].gameState.phase \in BiddingPhases
    /\ rooms[clients[c].roomCode].gameState.biddingPlayer = clients[c].seat

\* the bids of the clients in turn; a restart of the deal by the fourth pass
\* is dealt from the first shuffle too
ChooseTrumpInRoom ==
    \E c \in ClientIds, payload \in RoomBids :
        /\ bidsInTurn(c)
        /\ Leaves(chooseTrumpInRoom(clients, rooms, c, payload, 1))

\* the close and the error event of a connection both end here
Disconnect ==
    \E c \in Movers :
        /\ c \in ClientIds
        /\ Leaves(handleClientDisconnect(clients, rooms, c))

RoomsNext == Connect \/ JoinRoom \/ StartGameInRoom \/ Disconnect

SpecRooms == Init /\ [][RoomsNext]_vars

\* ------------------------------------------------------- study of one table
\* The first table alone, with its deal: the clients join that table only,
\* start the deal, bid and play in turn, and the clients that may leave
\* disconnect at any moment.

JoinTable ==
    \E c \in ClientIds, payload \in JoinPayloads :
        /\ clients[c].connected
        /\ \A d \in ClientIds :
              d < c /\ clients[d].connected => clients[d].roomCode # Undefined
        /\ normalise(payload.roomCode) \in {"", RoomNames[1]}
        /\ Leaves(handleJoinRoomMessage(clients, rooms, c, payload))

\* the cards the seats of a deal have played so far
cardsPlayed(state) ==
    IF state.phase \in {"PlayingTricks", "Finished"}
    THEN 32 - (Len(state.hands[0]) + Len(state.hands[1])
               + Len(state.hands[2]) + Len(state.hands[3]))
    ELSE 0

\* the client in turn plays the first card of its hand that the rules accept
PlayCardInRoom ==
    \E c \in ClientIds :
        /\ clients[c].connected
        /\ clients[c].roomCode # Undefined
        /\ clients[c].seat # NoPlayer
        /\ LET state == rooms[clients[c].roomCode].gameState
           IN /\ state.phase = "PlayingTricks"
              /\ state.currentPlayer = clients[c].seat
              /\ cardsPlayed(state) < MaxTablePlays
              /\ \E card \in firstLegal(state, clients[c].seat, 1) :
                    Leaves(playCardInRoom(clients, rooms, c, card))

TableNext ==
    Connect \/ JoinTable \/ StartGameInRoom \/ ChooseTrumpInRoom \/ PlayCardInRoom
        \/ Disconnect

SpecTable == Init /\ [][TableNext]_vars

\* ================================================================ claims
\* the cards of a sequence of trick entries
cardsOf(tcs) == [i \in 1..Len(tcs) |-> tcs[i].card]

\* where the cards of the deal are: the four hands, the deck, the turned card,
\* the trick being played (a completed trick counts among the won cards) and
\* the cards of the completed tricks
whereabouts(state, won) ==
    state.hands[0] \o state.hands[1] \o state.hands[2] \o state.hands[3]
    \o state.deck
    \o (IF state.turnedCard # NoCard THEN <<state.turnedCard>> ELSE <<>>)
    \o (IF Len(state.trick.cards) < 4 THEN cardsOf(state.trick.cards) ELSE <<>>)
    \o won

\* C1: whenever the table has a deal, the hands, the deck, the turned card,
\* the current trick and the completed tricks hold each of the 32 cards
\* exactly once
C1_EveryCardOnce ==
    gameState # NoGame =>
        /\ Len(whereabouts(gameState, wonCards)) = 32
        /\ Range(whereabouts(gameState, wonCards)) = Cards

C1_Witness ==
    /\ gameState.phase = "PlayingTricks"
    /\ Len(wonCards) = 12
    /\ Len(gameState.trick.cards) = 2

\* C2: in PlayingTricks every player's hand plus the cards the player has
\* played in this deal number 8
C2_HandPlusPlayedIsEight ==
    gameState.phase = "PlayingTricks" =>
        \A p \in Players : Len(gameState.hands[p]) + Len(playedBy[p]) = 8

C2_Witness ==
    /\ gameState.phase = "PlayingTricks"
    /\ Len(playedBy[0]) = 5
    /\ Len(playedBy[1]) = 4

\* a step in which a take is accepted: a bidding phase ends with a taker
takeAccepted ==
    /\ gameState.phase \in BiddingPhases
    /\ gameState'.trumpChooser # NoPlayer

\* C3: right after an accepted take the trump is set, every hand holds 8
\* cards, the taker's hand holds the turned card, the deck is empty and no
\* card is turned
C3_AfterTake ==
    [][takeAccepted =>
        /\ gameState'.trumpSuit \in Suits
        /\ \A p \in Players : Len(gameState'.hands[p]) = 8
        /\ gameState.turnedCard \in Range(gameState'.hands[gameState'.trumpChooser])
        /\ gameState'.deck = <<>>
        /\ gameState'.turnedCard = NoCard]_vars

C3_Witness ==
    /\ gameState.phase = "PlayingTricks"
    /\ gameState.trick = NoTrick
    /\ gameState.trumpChooser = 0
    /\ \A p \in Players : Len(gameState.hands[p]) = 8

\* C4: in Finished the two deal scores sum to 162
C4_FinishedTotal ==
    gameState.phase = "Finished" =>
        gameState.scores.team0 + gameState.scores.team1 = 162

C4_Witness ==
    /\ gameState.phase = "Finished"
    /\ gameState.scores.team0 > 0
    /\ gameState.scores.team1 > 0

\* the two orders as the claims state them, weakest first
StatedTrumpOrder == <<"7", "8", "Q", "K", "10", "A", "9", "J">>
StatedPlainOrder == <<"7", "8", "9", "J", "Q", "K", "10", "A">>
place(order, rank) == CHOOSE i \in 1..Len(order) : order[i] = rank

\* the entry of tcs, among those at the indices idx, that is strongest under order
strongest(tcs, idx, order) ==
    tcs[CHOOSE i \in idx : \A j \in idx :
            place(order, tcs[j].card.rank) <= place(order, tcs[i].card.rank)]

\* who holds the trick as the rules state it: the strongest trump if a trump
\* was played, else the strongest card of the lead suit
holder(tcs, trump) ==
    LET trumps == {i \in 1..Len(tcs) : tcs[i].card.suit = trump}
        led == {i \in 1..Len(tcs) : tcs[i].card.suit = tcs[1].card.suit}
    IN IF trumps # {} THEN strongest(tcs, trumps, StatedTrumpOrder).player
       ELSE strongest(tcs, led, StatedPlainOrder).player

Scenario1 == <<[player |-> 0, card |-> Card("S", "10")], [player |-> 1, card |-> Card("H", "J")],
               [player |-> 2, card |-> Card("S", "A")], [player |-> 3, card |-> Card("H", "8")]>>

\* C5: the winner of a complete trick is the player of the strongest trump,
\* or without a trump the player of the strongest card of the lead suit; with
\* trump hearts and 10S, JH, AS, 8H played by p0..p3 the winner is p1
C5_TrickWinner ==
    Len(tTrick.cards) = 4 =>
        /\ tWinner = holder(tTrick.cards, tTrump)
        /\ (tTrump = "H" /\ tTrick.cards = Scenario1) => tWinner = 1

C5_Witness ==
    /\ tTrump = "H"
    /\ tTrick.cards = Scenario1
    /\ tWinner = 1

\* the legality study: the trick, its lead suit, the trump and the hand
vTrick == vState.trick.cards
vLead == vTrick[1].card.suit
vTrumpSuit == vState.trumpSuit
vHand == Range(vState.hands[vPlayer])
vPartial == Len(vTrick) \in 1..3
accepted(c) == vVerdict[c] = Null
partner(a, b) == a % 2 = b % 2

\* C6: with a lead suit other than trump, every card of the lead suit is
\* accepted, every other card is refused when the hand holds the lead suit,
\* and every card is accepted when the hand holds neither lead suit nor trump
C6_FollowSuit ==
    (vPartial /\ vLead # vTrumpSuit) =>
        \A c \in vHand :
            /\ c.suit = vLead => accepted(c)
            /\ (c.suit # vLead /\ \E d \in vHand : d.suit = vLead) => ~accepted(c)
            /\ (\A d \in vHand : d.suit # vLead /\ d.suit # vTrumpSuit) => accepted(c)

C6_Witness ==
    /\ vPartial /\ vLead # vTrumpSuit
    /\ \E c, d \in vHand : c.suit = vLead /\ accepted(c)
                           /\ d.suit = vTrumpSuit /\ vVerdict[d] = "MustFollowSuit"

\* the strongest trump of the trick, as a place in the stated trump order (0: none)
vTopTrump ==
    LET trumps == {i \in 1..Len(vTrick) : vTrick[i].card.suit = vTrumpSuit}
    IN IF trumps = {} THEN 0
       ELSE place(StatedTrumpOrder, strongest(vTrick, trumps, StatedTrumpOrder).card.rank)

vStronger(c) == c.suit = vTrumpSuit /\ place(StatedTrumpOrder, c.rank) > vTopTrump

\* the player holds no card of the lead suit and at least one trump
vMustCut ==
    /\ vPartial
    /\ \A d \in vHand : d.suit # vLead
    /\ \E d \in vHand : d.suit = vTrumpSuit

\* C7: a player without the lead suit and with a trump may play any card when
\* the partner holds the trick; must play a trump when an opponent holds it
\* without a trump; and when an opponent holds it with a trump, must play a
\* stronger trump if the hand has one, else any trump
C7_CutAndOvercut ==
    vMustCut =>
        LET w == holder(vTrick, vTrumpSuit)
        IN \A c \in vHand :
            IF partner(w, vPlayer) THEN accepted(c)
            ELSE IF vTopTrump = 0 THEN accepted(c) <=> c.suit = vTrumpSuit
            ELSE IF \E d \in vHand : vStronger(d) THEN accepted(c) <=> vStronger(c)
            ELSE accepted(c) <=> c.suit = vTrumpSuit

C7_Witness ==
    /\ vMustCut
    /\ ~partner(holder(vTrick, vTrumpSuit), vPlayer)
    /\ \E c, d, e \in vHand : /\ vVerdict[c] = "MustOvertrumpStronger"
                              /\ vVerdict[d] = "MustOvertrumpWithTrump"
                              /\ accepted(e)

\* C8: when trump is led, a trump of the hand is accepted if the partner holds
\* the trick; otherwise, if the hand has a trump stronger than the strongest
\* trump of the trick a trump that is not stronger is refused, and if the hand
\* has none every trump is accepted
C8_TrumpLed ==
    (vPartial /\ vLead = vTrumpSuit) =>
        LET w == holder(vTrick, vTrumpSuit)
        IN \A c \in vHand : c.suit = vTrumpSuit =>
            IF partner(w, vPlayer) THEN accepted(c)
            ELSE IF \E d \in vHand : vStronger(d) THEN (~vStronger(c) => ~accepted(c))
            ELSE accepted(c)

C8_Witness ==
    /\ vPartial /\ vLead = vTrumpSuit
    /\ ~partner(holder(vTrick, vTrumpSuit), vPlayer)
    /\ \E c, d \in vHand : vVerdict[c] = "MustOvertrump" /\ vStronger(d) /\ accepted(d)

\* scenario 2: trump clubs, p0 led AD, p1 played 9C, p2 holds 7C, JC, KD
Scenario2 ==
    /\ vTrumpSuit = "C"
    /\ vTrick = <<[player |-> 0, card |-> Card("D", "A")], [player |-> 1, card |-> Card("C", "9")]>>
    /\ vPlayer = 2
    /\ vHand = {Card("C", "7"), Card("C", "J"), Card("D", "K")}

\* C9 as stated: in scenario 2 the oracle refuses 7C, refuses KD and accepts JC
C9_AsStated ==
    Scenario2 => /\ ~accepted(Card("C", "7"))
                 /\ ~accepted(Card("D", "K"))
                 /\ accepted(Card("C", "J"))

\* C9 amended: in scenario 2 p2 holds a card of the lead suit, so the oracle
\* refuses both clubs (MustFollowSuit) and accepts KD
C9_MustFollowDiamond ==
    Scenario2 => /\ vVerdict[Card("C", "7")] = "MustFollowSuit"
                 /\ vVerdict[Card("C", "J")] = "MustFollowSuit"
                 /\ accepted(Card("D", "K"))

C9_Witness == Scenario2 /\ DOMAIN vVerdict = vHand

\* scenario 3: trump clubs, p0 led AH, p1 played 7H, p2 played 10H, p3 holds 8C, 9D
Scenario3 ==
    /\ vTrumpSuit = "C"
    /\ vTrick = <<[player |-> 0, card |-> Card("H", "A")], [player |-> 1, card |-> Card("H", "7")],
                  [player |-> 2, card |-> Card("H", "10")]>>
    /\ vPlayer = 3
    /\ vHand = {Card("C", "8"), Card("D", "9")}

\* C10 as stated: in scenario 3 the oracle accepts 9D
C10_AsStated == Scenario3 => accepted(Card("D", "9"))

\* C10 amended: in scenario 3 the trick is held by p0's AH, an opponent of p3,
\* so the oracle refuses 9D (MustTrump) and accepts 8C
C10_MustCutOpponentAce ==
    Scenario3 => /\ holder(vTrick, vTrumpSuit) = 0
                 /\ vVerdict[Card("D", "9")] = "MustTrump"
                 /\ accepted(Card("C", "8"))

C10_Witness == Scenario3 /\ vVerdict[Card("C", "8")] = Null

\* ---------------------------------------------------------------- C11
\* the rejections the claim lists, read off the command and the state
playRejected(state, seat, card) ==
    \/ state.phase # "PlayingTricks"
    \/ state.currentPlayer # seat
    \/ validatePlay(state, seat, card) # Null

bidRejected(state, seat, payload) ==
    \/ state.phase \notin BiddingPhases
    \/ state.biddingPlayer # seat
    \/ /\ state.phase = "ChoosingTrumpSecondRound"
       /\ payload.action = "take"
       /\ (payload.suit = Undefined \/ payload.suit = state.proposedTrump)

\* C11: a rejected command never changes the DealState. In every state with
\* a deal, every play_card that is out of phase, out of turn or refused by
\* the legality oracle, and every choose_trump that is out of phase, from a
\* seat other than biddingPlayer, or a second-round take whose suit is absent
\* or equal to proposedTrump, leaves room.gameState equal, field for field,
\* to what it was.
C11_RejectedLeavesState ==
    gameState # NoGame =>
        /\ \A seat \in Players, card \in Cards :
              playRejected(gameState, seat, card)
                 => handlePlayCardMessage(gameState, seat, card) = gameState
        /\ \A seat \in Players, payload \in Payloads, seed \in Seeds :
              bidRejected(gameState, seat, payload)
                 => handleChooseTrumpMessage(gameState, seat, payload, seed) = gameState

\* a trick is under way and the player in turn holds a card the oracle
\* refuses, while in the same state a bid arrives out of phase
C11_Witness ==
    /\ gameState # NoGame
    /\ gameState.phase = "PlayingTricks"
    /\ gameState.trick # NoTrick
    /\ Len(gameState.trick.cards) \in 1..3
    /\ \E c \in Range(gameState.hands[gameState.currentPlayer]) :
          /\ validatePlay(gameState, gameState.currentPlayer, c) # Null
          /\ handlePlayCardMessage(gameState, gameState.currentPlayer, c) = gameState
    /\ \A payload \in Payloads :
          handleChooseTrumpMessage(gameState, gameState.currentPlayer, payload, 1) = gameState

\* ---------------------------------------------------------------- C12
\* C12: every rejected command is answered by one error message to the seat
\* that sent it and by no message to any other seat; in particular a
\* choose_trump from a seat that is not biddingPlayer, or an invalid
\* second-round take, is answered by an error and by no game_state.
C12_RejectedAnsweredBySenderOnly ==
    gameState # NoGame =>
        /\ \A seat \in Players, card \in Cards :
              playRejected(gameState, seat, card)
                 => playCardSends(gameState, seat, card) = {send(seat, "error")}
        /\ \A seat \in Players, payload \in Payloads, seed \in Seeds :
              bidRejected(gameState, seat, payload)
                 => chooseTrumpSends(gameState, seat, payload, seed) = {send(seat, "error")}

\* ---------------------------------------------------------------- C13
\* a step in which a pass is accepted without completing the four passes of
\* its round: the round goes on with one pass more
passCounted ==
    /\ gameState.phase \in BiddingPhases
    /\ gameState'.phase = gameState.phase
    /\ gameState'.passesInCurrentRound = gameState.passesInCurrentRound + 1

\* C13: after an accepted pass by p that does not complete four passes,
\* biddingPlayer is (p+1) mod 4 and currentPlayer is that same player; hence
\* in every bidding-phase state currentPlayer equals biddingPlayer.
C13_PassMovesBothPlayers ==
    [][/\ passCounted =>
            /\ gameState'.biddingPlayer = (gameState.biddingPlayer + 1) % 4
            /\ gameState'.currentPlayer = gameState'.biddingPlayer
       /\ gameState'.phase \in BiddingPhases =>
            gameState'.currentPlayer = gameState'.biddingPlayer]_vars

\* ---------------------------------------------------------------- C14
Pass == [action |-> "pass", suit |-> Undefined]

\* the state after the bidder of the state passes
passed(state) == handleChooseTrumpMessage(state, state.biddingPlayer, Pass, 1)

\* C14: four consecutive accepted passes in ChoosingTrumpFirstRound move the
\* deal to ChoosingTrumpSecondRound with biddingPlayer = (dealer+1) mod 4 and
\* passesInCurrentRound = 0, leaving hands, deck, turnedCard, proposedTrump
\* and dealer unchanged; fewer than four passes never leave the first round.
\* In the first round the k-th seat after the dealer speaks after k-1 passes;
\* a pass after fewer than three stays in the round, the pass after three
\* enters the second round, and the second round is entered in no other way.
C14_FourPassesOpenSecondRound ==
    [][/\ gameState.phase = "ChoosingTrumpFirstRound" =>
            /\ gameState.passesInCurrentRound \in 0..3
            /\ gameState.biddingPlayer
                  = (gameState.dealer + 1 + gameState.passesInCurrentRound) % 4
            /\ gameState.passesInCurrentRound < 3 =>
                  /\ passed(gameState).phase = "ChoosingTrumpFirstRound"
                  /\ passed(gameState).passesInCurrentRound
                        = gameState.passesInCurrentRound + 1
            /\ gameState.passesInCurrentRound = 3 =>
                  passed(gameState).phase = "ChoosingTrumpSecondRound"
       /\ gameState'.phase = "ChoosingTrumpSecondRound"
             /\ gameState.phase # "ChoosingTrumpSecondRound" =>
            /\ gameState.phase = "ChoosingTrumpFirstRound"
            /\ gameState.passesInCurrentRound = 3
            /\ gameState' = passed(gameState)
            /\ gameState'.biddingPlayer = (gameState.dealer + 1) % 4
            /\ gameState'.passesInCurrentRound = 0
            /\ gameState'.hands = gameState.hands
            /\ gameState'.deck = gameState.deck
            /\ gameState'.turnedCard = gameState.turnedCard
            /\ gameState'.proposedTrump = gameState.proposedTrump
            /\ gameState'.dealer = gameState.dealer]_vars

\* the second round has just been opened by the fourth pass
C14_Witness ==
    /\ gameState.phase = "ChoosingTrumpSecondRound"
    /\ gameState.passesInCurrentRound = 0
    /\ gameState.biddingPlayer = (gameState.dealer + 1) % 4
    /\ gameState.turnedCard # NoCard
    /\ \A p \in Players : Len(gameState.hands[p]) = 5

\* ---------------------------------------------------------------- C15
\* a step that takes the deal from the second bidding round back to the first
restartStep ==
    /\ gameState.phase = "ChoosingTrumpSecondRound"
    /\ gameState'.phase = "ChoosingTrumpFirstRound"

\* C15: four consecutive accepted passes in ChoosingTrumpSecondRound replace
\* the deal by a fresh one with the same dealer: phase
\* ChoosingTrumpFirstRound, biddingPlayer (dealer+1) mod 4, zero passes, zero
\* deal scores, five cards per hand and a new turned card, while the
\* match-level scores are what they were before the restart. The pass after
\* three passes of the second round always restarts, and nothing else does.
C15_FourPassesRestartDeal ==
    [][/\ gameState.phase = "ChoosingTrumpSecondRound"
             /\ gameState.passesInCurrentRound = 3 =>
            \A seed \in Seeds :
               handleChooseTrumpMessage(gameState, gameState.biddingPlayer, Pass, seed).phase
                  = "ChoosingTrumpFirstRound"
       /\ restartStep =>
            /\ gameState.passesInCurrentRound = 3
            /\ gameState.biddingPlayer = (gameState.dealer + 1 + 3) % 4
            /\ gameState'.dealer = gameState.dealer
            /\ gameState'.biddingPlayer = (gameState.dealer + 1) % 4
            /\ gameState'.passesInCurrentRound = 0
            /\ gameState'.scores = [team0 |-> 0, team1 |-> 0]
            /\ \A p \in Players : Len(gameState'.hands[p]) = 5
            /\ gameState'.turnedCard \in Cards
            /\ gameState'.proposedTrump = gameState'.turnedCard.suit
            /\ gameState'.trumpSuit = Undefined
            /\ gameState'.trick = NoTrick
            /\ Cardinality(Range(whereabouts(gameState', <<>>))) = 32
            /\ matchScores' = matchScores]_vars

\* a deal of a match that already has points has just been restarted
C15_Witness ==
    /\ lastEvent = "restart"
    /\ gameState.phase = "ChoosingTrumpFirstRound"
    /\ gameState.passesInCurrentRound = 0
    /\ matchScores.team0 + matchScores.team1 > 0
    /\ gameState.scores = [team0 |-> 0, team1 |-> 0]

\* ---------------------------------------------------------------- C16
Takes == {payload \in Payloads : payload.action = "take"}

\* the state after the bidder of the state sends the take
taken(state, payload) == handleChooseTrumpMessage(state, state.biddingPlayer, payload, 1)

\* C16: an accepted first-round take by p sets trumpSuit to the suit of the
\* turned card and trumpChooser to p, whatever suit the payload carries; an
\* accepted second-round take sets trumpSuit to the payload's suit, which is
\* never the suit of the turned card, and trumpChooser to p. Stated for every
\* take the bidder can send in a bidding state, and for every step of the
\* table in which a take is accepted.
C16_TakeSetsTrump ==
    [][/\ gameState.phase = "ChoosingTrumpFirstRound" =>
            \A payload \in Takes :
               /\ taken(gameState, payload).trumpSuit = gameState.turnedCard.suit
               /\ taken(gameState, payload).trumpChooser = gameState.biddingPlayer
       /\ gameState.phase = "ChoosingTrumpSecondRound" =>
            \A payload \in Takes :
               \/ taken(gameState, payload) = gameState
               \/ /\ taken(gameState, payload).trumpSuit = payload.suit
                  /\ payload.suit \in Suits \ {gameState.turnedCard.suit}
                  /\ taken(gameState, payload).trumpChooser = gameState.biddingPlayer
       /\ takeAccepted =>
            /\ gameState'.trumpChooser = gameState.biddingPlayer
            /\ gameState'.trumpSuit \in Suits
            /\ gameState.phase = "ChoosingTrumpFirstRound"
                  <=> gameState'.trumpSuit = gameState.turnedCard.suit]_vars

\* a second-round take has been accepted: the trump is not the suit of the
\* card that was turned, which the taker now holds
C16_Witness ==
    /\ gameState.phase = "PlayingTricks"
    /\ gameState.trick = NoTrick
    /\ gameState.trumpChooser \in Players
    /\ LET hand == gameState.hands[gameState.trumpChooser]
       IN /\ Len(hand) = 8
          /\ hand[6].suit # gameState.trumpSuit

\* ---------------------------------------------------------------- C17
\* C17: immediately after any accepted take, phase is PlayingTricks and
\* currentPlayer, the leader of the first trick, is the player after the
\* dealer, (dealer+1) mod 4, whoever took.
C17_EldestLeadsFirstTrick ==
    [][takeAccepted =>
          /\ gameState'.phase = "PlayingTricks"
          /\ gameState'.currentPlayer = (gameState.dealer + 1) % 4]_vars

\* ---------------------------------------------------------------- C18
\* C18: in every reachable deal state, trumpSuit is defined if and only if
\* phase is PlayingTricks or Finished, and turnedCard and proposedTrump are
\* present only in the two bidding phases.
C18_TrumpIffPlaying ==
    gameState # NoGame =>
        /\ gameState.trumpSuit # Undefined
              <=> gameState.phase \in {"PlayingTricks", "Finished"}
        /\ gameState.trumpSuit # Undefined => gameState.trumpSuit \in Suits
        /\ gameState.turnedCard # NoCard => gameState.phase \in BiddingPhases
        /\ gameState.proposedTrump # Null => gameState.phase \in BiddingPhases

\* a deal played to its end after a second-round take: the trump is set and
\* nothing of the bidding is left
C18_Witness ==
    /\ gameState.phase = "Finished"
    /\ gameState.trumpSuit \in Suits
    /\ gameState.turnedCard = NoCard
    /\ gameState.proposedTrump = Null
    /\ gameState.trumpChooser # (gameState.dealer + 1) % 4

\* ---------------------------------------------------------------- C19
\* the two point tables as the claims state them
StatedTrumpPoints == [r \in Ranks |->
    CASE r = "J" -> 20 [] r = "9" -> 14 [] r = "A" -> 11 [] r = "10" -> 10
      [] r = "K" -> 4 [] r = "Q" -> 3 [] OTHER -> 0]
StatedPlainPoints == [r \in Ranks |->
    CASE r = "A" -> 11 [] r = "10" -> 10 [] r = "K" -> 4 [] r = "Q" -> 3
      [] r = "J" -> 2 [] OTHER -> 0]

worth(card, trump) ==
    IF card.suit = trump THEN StatedTrumpPoints[card.rank] ELSE StatedPlainPoints[card.rank]

\* the points of the four cards of a complete trick
fourCards(tcs, trump) ==
    worth(tcs[1].card, trump) + worth(tcs[2].card, trump)
        + worth(tcs[3].card, trump) + worth(tcs[4].card, trump)

side(p) == IF p \in {0, 2} THEN "team0" ELSE "team1"
otherSide(p) == IF p \in {0, 2} THEN "team1" ELSE "team0"

\* a step in which a play_card is accepted: the seat in turn has played one
\* card more
playStep ==
    /\ gameState.phase = "PlayingTricks"
    /\ countPlayed(playedBy', 0) = countPlayed(playedBy, 0) + 1

\* the play leaves the trick open: the next seat is in turn, no score moves
openTrick ==
    /\ gameState'.currentPlayer = (gameState.currentPlayer + 1) % 4
    /\ gameState'.scores = gameState.scores

\* the play completes the trick: the winner is recorded and in turn, and its
\* team, and no other, gains the points of the four cards plus bonus
closedTrick(bonus) ==
    LET tcs == gameState'.trick.cards
        w == gameState'.trick.winner
    IN /\ w = holder(tcs, gameState.trumpSuit)
       /\ gameState'.currentPlayer = w
       /\ gameState'.scores[side(w)]
             = gameState.scores[side(w)] + fourCards(tcs, gameState.trumpSuit) + bonus
       /\ gameState'.scores[otherSide(w)] = gameState.scores[otherSide(w)]

emptied == \A p \in Players : gameState'.hands[p] = <<>>

\* C19 as stated: an accepted play by p that brings the trick to fewer than
\* 4 cards sets currentPlayer to (p+1) mod 4 and leaves both deal scores
\* unchanged; one that brings it to 4 cards records the trick winner, sets
\* currentPlayer to that winner, adds the sum of the four cards' points to
\* the winner's team and leaves the other team's score unchanged.
C19_AsStated ==
    [][playStep =>
          IF Len(gameState'.trick.cards) < 4 THEN openTrick ELSE closedTrick(0)]_vars

\* C19 amended: as above, except that the play completing the last trick of
\* the deal, the one that empties all four hands, adds the sum of the four
\* cards' points plus 10 to the winner's team.
C19_TrickScored ==
    [][playStep =>
          IF Len(gameState'.trick.cards) < 4 THEN openTrick
          ELSE closedTrick(IF emptied THEN 10 ELSE 0)]_vars

\* a trick that is not the last has just been completed and scored, and the
\* player who completed it did not win it
C19_Witness ==
    /\ gameState.phase = "PlayingTricks"
    /\ Len(gameState.trick.cards) = 4
    /\ gameState.trick.winner = gameState.currentPlayer
    /\ gameState.trick.winner # gameState.trick.cards[4].player
    /\ gameState.scores.team0 + gameState.scores.team1 > 0
    /\ gameState.scores.team0 + gameState.scores.team1
          = fourCards(gameState.trick.cards, gameState.trumpSuit)

\* ---------------------------------------------------------------- C20
\* C20: the phase becomes Finished exactly at the accepted play after which
\* all four hands are empty, the fourth card of the eighth trick; at that
\* step the team winning the last trick receives 10 points on top of the
\* trick's card points; and once Finished no play_card and no choose_trump
\* changes the deal state.
C20_FinishedAtLastCard ==
    [][/\ gameState.phase # "Finished" /\ gameState'.phase = "Finished" =>
            /\ playStep
            /\ emptied
            /\ countPlayed(playedBy', 0) = 32
            /\ Len(wonCards') = 32
            /\ Len(gameState'.trick.cards) = 4
            /\ closedTrick(10)
       /\ playStep =>
            (gameState'.phase = "Finished" <=> emptied)
       /\ gameState.phase = "PlayingTricks" =>
            \E p \in Players : gameState.hands[p] # <<>>
       /\ gameState.phase = "Finished" =>
            /\ \A seat \in Players, card \in Cards :
                  handlePlayCardMessage(gameState, seat, card) = gameState
            /\ \A seat \in Players, payload \in Payloads, seed \in Seeds :
                  handleChooseTrumpMessage(gameState, seat, payload, seed) = gameState]_vars

\* the deal has just finished: every seat has played its 8 cards, nothing is
\* left in hand, and the winner of the last trick holds its points and the bonus
C20_Witness ==
    /\ gameState.phase = "Finished"
    /\ \A p \in Players : gameState.hands[p] = <<>> /\ Len(playedBy[p]) = 8
    /\ Len(gameState.trick.cards) = 4
    /\ gameState.scores[side(gameState.trick.winner)]
          >= fourCards(gameState.trick.cards, gameState.trumpSuit) + 10
    /\ gameState.scores.team0 + gameState.scores.team1 = 162

\* ---------------------------------------------------------------- C21
\* a step in which the deal reaches Finished
finishes == gameState.phase # "Finished" /\ gameState'.phase = "Finished"

\* C21: when a deal reaches Finished, each team's deal score is added to that
\* team's cumulative match score, and match scores change at no other moment.
C21_MatchScoresMergeAtFinished ==
    [][/\ finishes =>
            /\ matchScores'.team0 = matchScores.team0 + gameState'.scores.team0
            /\ matchScores'.team1 = matchScores.team1 + gameState'.scores.team1
       /\ ~finishes => matchScores' = matchScores]_vars

\* the second deal of a match has just finished: the match scores hold the
\* points of both deals
C21_Witness ==
    /\ gameState.phase = "Finished"
    /\ dealNumber = 2
    /\ lastEvent = "play"
    /\ matchScores.team0 > gameState.scores.team0
    /\ matchScores.team1 > gameState.scores.team1
    /\ matchScores.team0 + matchScores.team1 = 2 * 162

\* ---------------------------------------------------------------- C22
\* C22: the belote announcement is a three-stage machine. An announce_belote
\* is accepted only in PlayingTricks with trumpSuit set; from stage 0 an
\* announce by p sets stage 1, holder p, team p's team and points 20; from
\* stage 1 only the holder's announce is accepted and sets stage 2; stage
\* never exceeds 2 and whenever stage >= 1 the holder belongs to the recorded
\* team.
C22_BeloteStages ==
    /\ belote.stage \in 0..2
    /\ belote.stage >= 1 =>
          /\ belote.holder \in Players
          /\ belote.team = side(belote.holder)
          /\ belote.points = 20
          /\ gameState.phase \in {"PlayingTricks", "Finished"}
    /\ gameState # NoGame =>
          \A p \in Players :
             LET after == announceBelote(gameState, belote, p)
             IN /\ after # belote =>
                      /\ gameState.phase = "PlayingTricks"
                      /\ gameState.trumpSuit \in Suits
                      /\ after.stage = belote.stage + 1
                /\ gameState.phase = "PlayingTricks" /\ belote.stage = 0 =>
                      after = [holder |-> p, stage |-> 1, points |-> 20, team |-> side(p)]
                /\ gameState.phase = "PlayingTricks" /\ belote.stage = 1 =>
                      IF p = belote.holder
                      THEN after = [belote EXCEPT !.stage = 2]
                      ELSE after = belote

\* belote and rebelote have both been announced, by a seat of team1, in a
\* deal that is still being played
C22_Witness ==
    /\ gameState.phase = "PlayingTricks"
    /\ belote.stage = 2
    /\ belote.holder = 3
    /\ belote.team = "team1"
    /\ lastEvent = "announce"

\* ---------------------------------------------------------------- C23
\* the join_room payloads that name the room of this code
joinsOf(roomCode) ==
    {payload \in JoinPayloads :
        normalise(payload.roomCode) = roomCode /\ normalise(payload.nickname) # ""}

\* C23: a join_room to a room that already has 4 clients, sent by a client
\* that is not one of them, is rejected: the target room, the sender's
\* session (room code, seat, nickname) and the sender's previous room are all
\* unchanged, the sender gets an error; consequently no room ever holds more
\* than 4 clients.
C23_FullRoomRefuses ==
    /\ \A r \in RoomCodes : Cardinality(rooms[r].clients) <= 4
    /\ \A r \in RoomCodes, c \in ClientIds :
          /\ clients[c].connected
          /\ Cardinality(rooms[r].clients) = 4
          /\ c \notin rooms[r].clients
          => \A payload \in joinsOf(r) :
                LET after == handleJoinRoomMessage(clients, rooms, c, payload)
                IN /\ after.rooms = rooms
                   /\ after.clients = clients
                   /\ after.sent = {send(c, "error")}

\* the first table holds four clients and a fifth, sitting at the second
\* table under another nickname than the one it sends, asks to join
C23_Witness ==
    /\ Cardinality(rooms["A"].clients) = 4
    /\ \E c \in ClientIds :
          /\ clients[c].connected
          /\ clients[c].roomCode = "B"
          /\ c \in rooms["B"].clients
          /\ rooms["B"].seats[clients[c].seat] = c
          /\ handleJoinRoomMessage(clients, rooms, c,
                                   [roomCode |-> " a", nickname |-> " Bob "]).rooms = rooms

\* ---------------------------------------------------------------- C24
\* the join_room payloads that name a room and give a nickname
NamedJoins == {payload \in JoinPayloads :
                  normalise(payload.roomCode) # "" /\ normalise(payload.nickname) # ""}

\* the handler answered client c with no error
joinAccepted(after, c) == send(c, "error") \notin after.sent

\* C24: after every accepted join_room, including a join by a client that was
\* previously seated in another room, the client's seat is the lowest seat
\* index of the target room that was empty or already held by this client,
\* and that seat slot of the target room records the client's id.
C24_JoinTakesLowestSeat ==
    \A c \in ClientIds, payload \in NamedJoins :
        LET target == normalise(payload.roomCode)
            after == handleJoinRoomMessage(clients, rooms, c, payload)
            seat == after.clients[c].seat
        IN clients[c].connected /\ joinAccepted(after, c)
           => /\ seat = lowestSeat(rooms[target].seats, c)
              /\ seat # NoPlayer
              /\ after.rooms[target].seats[seat] = c

\* ---------------------------------------------------------------- C25
\* the seat slots, over all rooms, that record client c
slotsOf(rs, c) == {<<r, i>> \in RoomCodes \X Players : rs[r].seats[i] = c}

\* the rooms whose client set holds client c
roomsOf(rs, c) == {r \in RoomCodes : c \in rs[r].clients}

\* C25: at every instant each client id appears in at most one seat slot over
\* all rooms and in at most one room's client set; when a seated client joins
\* a different room its seat in the old room becomes empty in the same step.
C25_OneSeatOneRoom ==
    /\ \A c \in ClientIds : /\ Cardinality(slotsOf(rooms, c)) <= 1
                            /\ Cardinality(roomsOf(rooms, c)) <= 1
    /\ \A c \in ClientIds, payload \in NamedJoins :
          LET old == clients[c].roomCode
              target == normalise(payload.roomCode)
              after == handleJoinRoomMessage(clients, rooms, c, payload)
          IN /\ clients[c].connected
             /\ old # Undefined
             /\ slotsOf(rooms, c) = {<<old, clients[c].seat>>}
             /\ target # old
             /\ joinAccepted(after, c)
             => /\ after.rooms[old].seats[clients[c].seat] = NoClientId
                /\ c \notin after.rooms[old].clients
                /\ roomsOf(after.rooms, c) = {target}
                /\ Cardinality(slotsOf(after.rooms, c)) <= 1

\* client 1 took seat 0 of the first table, client 2 seat 1, and client 1
\* has moved to the second table: its old seat is empty
C25_Witness ==
    /\ rooms["A"].seats[0] = NoClientId
    /\ rooms["A"].seats[1] = 2
    /\ rooms["A"].clients = {2}
    /\ clients[1].seat = 0
    /\ clients[1].roomCode = "B"
    /\ rooms["B"].clients = {1}

\* ---------------------------------------------------------------- C26
\* C26: a start_game sent to a room that already has an active DealState (any
\* phase, including mid-bidding or mid-trick) is rejected and leaves that
\* DealState unchanged.
C26_StartRejectedDuringDeal ==
    gameState # NoGame /\ gameState.phase # "Finished"
    => \A seed \in Seeds : handleStartGameMessage(gameState, seed) = gameState

\* ---------------------------------------------------------------- C27
\* each of the seats 0..3 of the room is held by a client of the room
fourSeated(room) == \A i \in Players : room.seats[i] \in room.clients

\* C27: a start_game is accepted only when the sender's room has four seated
\* clients, that is, each of the seats 0, 1, 2, 3 of the room is held by a
\* client of the room; otherwise it is rejected and no DealState is created.
C27_StartNeedsFourSeated ==
    \A c \in ClientIds :
        LET after == startGameInRoom(clients, rooms, c, 1)
            seated == /\ clients[c].roomCode # Undefined
                      /\ fourSeated(rooms[clients[c].roomCode])
        IN clients[c].connected /\ ~seated
           => /\ send(c, "error") \in after.sent
              /\ after.rooms = rooms

\* ---------------------------------------------------------------- C28
\* a deal as start_game is said to create it
freshDeal(state) ==
    /\ state.dealer = 0
    /\ state.phase = "ChoosingTrumpFirstRound"
    /\ state.biddingPlayer = 1
    /\ state.currentPlayer = 1
    /\ state.passesInCurrentRound = 0
    /\ state.scores = [team0 |-> 0, team1 |-> 0]
    /\ state.trumpSuit = Undefined
    /\ state.trumpChooser = NoPlayer
    /\ state.trick = NoTrick
    /\ \A p \in Players : Len(state.hands[p]) = 5
    /\ state.turnedCard \in Cards
    /\ state.proposedTrump = state.turnedCard.suit

\* C28: the DealState created by an accepted start_game has dealer = seat 0,
\* phase ChoosingTrumpFirstRound, biddingPlayer = currentPlayer = 1,
\* passesInCurrentRound = 0, both deal scores 0, no trump, no trick, exactly
\* 5 cards in each hand and a turned card whose suit is proposedTrump.
C28_StartedDeal ==
    \A seed \in Seeds : freshDeal(handleStartGameMessage(gameState, seed))

\* start_game has just replaced a deal: the table holds the deal of the
\* second shuffle and nothing has been bid or played on it
C28_Witness ==
    /\ gameState # NoGame
    /\ gameState = handleStartGameMessage(gameState, 2)
    /\ freshDeal(gameState)
    /\ playedBy = NoneYet

\* ---------------------------------------------------------------- C29
\* every room of the registry has a client
allRoomsPeopled(rs) == \A r \in RoomCodes : rs[r] # NoRoom => rs[r].clients # {}

\* the rooms that are in the registry after and were not before
createdRooms(before, after) == {r \in RoomCodes : before[r] = NoRoom /\ after[r] # NoRoom}

\* the rooms that were in the registry before and are not after
removedRooms(before, after) == createdRooms(after, before)

\* the rooms that client c was the last client of and is no longer in
emptiedBy(before, after, c) ==
    {r \in RoomCodes : before[r].clients = {c} /\ c \notin after[r].clients}

\* C29: after any handler (join, disconnect) completes, every room present in
\* the registry has at least one client: a room is created only by a join
\* that ends with the joiner in it, and it is removed in the same step in
\* which its last client leaves by disconnecting or by joining another room.
C29_NoEmptyRoom ==
    /\ allRoomsPeopled(rooms)
    /\ \A c \in ClientIds :
          LET after == handleClientDisconnect(clients, rooms, c)
          IN /\ allRoomsPeopled(after.rooms)
             /\ createdRooms(rooms, after.rooms) = {}
             /\ removedRooms(rooms, after.rooms) = emptiedBy(rooms, after.rooms, c)
    /\ \A c \in ClientIds, payload \in JoinPayloads :
          LET after == handleJoinRoomMessage(clients, rooms, c, payload)
          IN clients[c].connected
             => /\ allRoomsPeopled(after.rooms)
                /\ \A r \in createdRooms(rooms, after.rooms) :
                      /\ r = normalise(payload.roomCode)
                      /\ c \in after.rooms[r].clients
                      /\ after.clients[c].roomCode = r
                /\ removedRooms(rooms, after.rooms) = emptiedBy(rooms, after.rooms, c)

\* client 1 created the first table, then left it alone for the second:
\* the first table is gone and the second one exists with client 1 in it
C29_Witness ==
    /\ rooms["A"] = NoRoom
    /\ rooms["B"].clients = {1}
    /\ clients[1].roomCode = "B"
    /\ clients[1].seat = 0
    /\ rooms["B"].seats[0] = NoClientId

\* ---------------------------------------------------------------- C30
\* client c holds a seat slot of its room and the room has other clients
seatedWithOthers(cs, rs, c) ==
    /\ cs[c].connected
    /\ cs[c].roomCode # Undefined
    /\ cs[c].seat # NoPlayer
    /\ rs[cs[c].roomCode].seats[cs[c].seat] = c
    /\ rs[cs[c].roomCode].clients \ {c} # {}

\* the ids on the roster of a room_update
rosterIds(message) == {player.id : player \in message.players}

\* C30: when a seated client disconnects from a room that keeps at least one
\* other client, exactly its own seat slot becomes empty and it leaves the
\* room's client set; every other seat slot, every other client's session and
\* the room's DealState (if any) are unchanged, and the remaining clients
\* receive a room_update whose roster no longer contains it.
C30_DisconnectFreesOneSeat ==
    \A c \in ClientIds :
        seatedWithOthers(clients, rooms, c)
        => LET r == clients[c].roomCode
               after == handleClientDisconnect(clients, rooms, c)
               remaining == rooms[r].clients \ {c}
           IN /\ after.rooms[r].seats = [rooms[r].seats EXCEPT ![clients[c].seat] = NoClientId]
              /\ after.rooms[r].clients = remaining
              /\ after.rooms[r].gameState = rooms[r].gameState
              /\ \A q \in RoomCodes \ {r} : after.rooms[q] = rooms[q]
              /\ \A d \in ClientIds \ {c} : after.clients[d] = clients[d]
              /\ ~after.clients[c].connected
              /\ {message.to : message \in after.sent} = remaining
              /\ \A message \in after.sent :
                    /\ message.type = "room_update"
                    /\ message.roomCode = r
                    /\ rosterIds(message) = remaining

\* client 1 sat at seat 0 of a table of four, the deal was started, and
\* client 1 has disconnected: three clients, seat 0 empty, the deal still there
C30_Witness ==
    /\ ~clients[1].connected
    /\ rooms["A"].clients = {2, 3, 4}
    /\ rooms["A"].seats = (0 :> NoClientId) @@ (1 :> 2) @@ (2 :> 3) @@ (3 :> 4)
    /\ rooms["A"].gameState # NoGame

\* ---------------------------------------------------------------- C34
\* the deal has just been dealt, by start_game or by the restart of the
\* second round: nobody has spoken in the first round
dealStart(state) ==
    state.phase = "ChoosingTrumpFirstRound" /\ state.passesInCurrentRound = 0

\* five cards per hand, one turned card, and a deck of this many cards aside
dealtWith(state, aside) ==
    /\ \A p \in Players : Len(state.hands[p]) = 5
    /\ state.turnedCard \in Cards
    /\ Len(state.deck) = aside

\* C34 as stated: at the start of every deal (start_game and second-round
\* restart) each player has been dealt 5 cards, one card is turned face-up,
\* and the deck remaining in the DealState holds 27 cards.
C34_AsStated == dealStart(gameState) => dealtWith(gameState, 27)

\* C34 amended: at the start of every deal each player has been dealt 5
\* cards, one card is turned face-up, and the deck remaining in the DealState
\* holds the other 11 cards of the 32.
C34_DeckHoldsEleven == dealStart(gameState) => dealtWith(gameState, 32 - 4 * 5 - 1)

\* a deal of the second shuffle has just been dealt at a table
C34_Witness ==
    /\ dealStart(gameState)
    /\ Len(gameState.deck) = 11
    /\ gameState.hands[0] = SubSeq(shuffledDeck[2], 1, 5)
    /\ gameState.turnedCard = shuffledDeck[2][21]

\* ---------------------------------------------------------------- C35
\* C35: in every bidding-phase state biddingPlayer is defined,
\* passesInCurrentRound is between 0 and 3 and
\* biddingPlayer = (dealer + 1 + passesInCurrentRound) mod 4; in PlayingTricks
\* and Finished biddingPlayer is none.
C35_BidderFollowsPasses ==
    /\ gameState.phase \in BiddingPhases
       => /\ gameState.biddingPlayer \in Players
          /\ gameState.passesInCurrentRound \in 0..3
          /\ gameState.biddingPlayer
                = (gameState.dealer + 1 + gameState.passesInCurrentRound) % 4
    /\ gameState.phase \in {"PlayingTricks", "Finished"}
       => gameState.biddingPlayer = NoPlayer

\* three passes in the second round: the dealer, seat 0, is the one to speak
C35_Witness ==
    /\ gameState.phase = "ChoosingTrumpSecondRound"
    /\ gameState.passesInCurrentRound = 3
    /\ gameState.biddingPlayer = gameState.dealer
    /\ gameState.dealer = 0

\* ---------------------------------------------------------------- C37
\* the cards of the hand of this seat that validatePlay accepts
legalCards(state, seat) ==
    {card \in Range(state.hands[seat]) : validatePlay(state, seat, card) = Null}

\* C37: in every reachable state with phase PlayingTricks, currentPlayer's
\* hand is non-empty and contains at least one card that validatePlay
\* accepts, so the rule engine itself never leaves the player to move
\* without a legal card.
C37_AlwaysALegalCard ==
    gameState.phase = "PlayingTricks"
    => /\ gameState.currentPlayer \in Players
       /\ Len(gameState.hands[gameState.currentPlayer]) > 0
       /\ \E i \in 1..Len(gameState.hands[gameState.currentPlayer]) :
             validatePlay(gameState, gameState.currentPlayer,
                          gameState.hands[gameState.currentPlayer][i]) = Null

\* in the middle of a trick the player to move holds a card the rules
\* refuse and a card they accept
C37_Witness ==
    /\ gameState.phase = "PlayingTricks"
    /\ gameState.trick # NoTrick
    /\ Len(gameState.trick.cards) \in 1..3
    /\ legalCards(gameState, gameState.currentPlayer) # {}
    /\ legalCards(gameState, gameState.currentPlayer)
          # Range(gameState.hands[gameState.currentPlayer])

\* ---------------------------------------------------------------- C39
\* a trick of 1 to 4 entries played by the seats leader, leader+1, ... in
\* turn, with a winner exactly when it has 4 entries
wellFormed(trick) ==
    /\ Len(trick.cards) \in 1..4
    /\ trick.leader \in Players
    /\ \A i \in 1..Len(trick.cards) : trick.cards[i].player = (trick.leader + i - 1) % 4
    /\ \A i, j \in 1..Len(trick.cards) :
          i # j => trick.cards[i].player # trick.cards[j].player
    /\ (trick.winner \in Players) <=> (Len(trick.cards) = 4)
    /\ trick.winner \in Players \cup {NoPlayer}

\* the step keeps the deal: no new deal is dealt in it
sameDeal == gameState'.phase \notin BiddingPhases

\* C39: the current trick is always well formed: it holds between 1 and 4
\* entries played by the consecutive seats leader, leader+1, ... (mod 4), each
\* seat at most once; its winner is recorded if and only if it holds 4
\* entries; a completed trick stays visible until the next accepted play,
\* which replaces it by a new trick whose leader is the previous winner.
C39_TrickWellFormed ==
    [][/\ gameState'.trick # NoTrick => wellFormed(gameState'.trick)
       /\ gameState.trick # NoTrick /\ Len(gameState.trick.cards) = 4 /\ sameDeal
          => \/ gameState'.trick = gameState.trick /\ ~playStep
             \/ /\ playStep
                /\ Len(gameState'.trick.cards) = 1
                /\ gameState'.trick.leader = gameState.trick.winner
                /\ gameState'.trick.cards[1].player = gameState.trick.winner
       /\ playStep /\ gameState.trick # NoTrick /\ Len(gameState.trick.cards) < 4
          => SubSeq(gameState'.trick.cards, 1, Len(gameState.trick.cards))
                = gameState.trick.cards
       ]_vars

\* the winner of the first trick, a seat other than its leader, has led the
\* second trick
C39_Witness ==
    /\ gameState.phase = "PlayingTricks"
    /\ Len(wonCards) = 4
    /\ Len(gameState.trick.cards) = 1
    /\ gameState.trick.leader # gameState.trumpChooser
    /\ gameState.trick.cards[1].player = gameState.trick.leader

\* ---------------------------------------------------------------- C38
\* the accepted plays of the deal so far
acceptedPlays == countPlayed(playedBy, 0)

sessionsIn(roomCode) ==
    {c \in ClientIds : clients[c].connected /\ clients[c].roomCode = roomCode}

\* C36: after any sequence of join_room and disconnect events, no two clients
\* of the same room have the same seat index, and for every client with a
\* room and a seat s the slot s of that room holds that client's id (session
\* seat and room seat table agree).
C36_SessionAndSeatTableAgree ==
    \A r \in RoomCodes :
        /\ \A c, d \in sessionsIn(r) :
              c # d /\ clients[c].seat # NoPlayer => clients[c].seat # clients[d].seat
        /\ \A c \in sessionsIn(r) :
              clients[c].seat # NoPlayer => rooms[r].seats[clients[c].seat] = c

\* ---------------------------------------------------------------- C40
\* the disconnect handler, run for client c on these maps, does nothing
disconnectIdle(cs, rs, c) == handleClientDisconnect(cs, rs, c) = Outcome(cs, rs, {})

\* C40: disconnect handling is idempotent: when both the close and the error
\* event fire for the same connection, the second invocation of the
\* disconnect handler changes no room, seat or session and sends no
\* room_update, even if another client has taken the vacated seat in between.
C40_SecondDisconnectIdle ==
    \A c \in ClientIds :
        LET first == handleClientDisconnect(clients, rooms, c)
        IN /\ disconnectIdle(first.clients, first.rooms, c)
           /\ \A d \in ClientIds \ {c}, payload \in NamedJoins :
                 clients[d].connected
                 => LET between == handleJoinRoomMessage(first.clients, first.rooms, d, payload)
                    IN disconnectIdle(between.clients, between.rooms, c)

\* client 1 left seat 0 of the first table by disconnecting, client 3 has
\* taken that seat next to client 2, and the handler runs again for client 1
C40_Witness ==
    /\ ~clients[1].connected
    /\ rooms["A"].seats[0] = 3
    /\ rooms["A"].seats[1] = 2
    /\ clients[3].seat = 0
    /\ disconnectIdle(clients, rooms, 1)

\* ---------------------------------------------------------------- C33
\* the outcome of a command of room r sent one game_state, carrying the deal
\* of r as the command left it, to each client of r and nothing to anyone else
fannedOut(after, r) ==
    /\ {message.to : message \in after.sent} = after.rooms[r].clients
    /\ \A message \in after.sent :
          /\ message.type = "game_state"
          /\ message.state = after.rooms[r].gameState
    /\ Cardinality(after.sent) = Cardinality(after.rooms[r].clients)

\* the accepted plays that can follow on these maps are fanned out
playsFannedOut(cs, rs) ==
    \A d \in ClientIds :
        cs[d].connected /\ cs[d].roomCode # Undefined /\ cs[d].seat # NoPlayer
        => \A card \in firstLegal(rs[cs[d].roomCode].gameState, cs[d].seat, 2) :
              LET played == playCardInRoom(cs, rs, d, card)
              IN send(d, "error") \notin played.sent
                 => /\ played.rooms # rs
                    /\ fannedOut(played, cs[d].roomCode)

\* C33: after every accepted start_game, bid or play, and before any later
\* command of that room is processed, every client in the room's client set
\* is sent one game_state carrying the post-command DealState, and no client
\* of another room is sent anything.
C33_AcceptedCommandFannedOut ==
    \A c \in ClientIds :
        clients[c].connected /\ clients[c].roomCode # Undefined
        => LET r == clients[c].roomCode
               started == startGameInRoom(clients, rooms, c, 1)
           IN /\ send(c, "error") \notin started.sent => fannedOut(started, r)
              /\ \A payload \in RoomBids :
                    LET bid == chooseTrumpInRoom(clients, rooms, c, payload, 1)
                    IN bid.rooms # rooms
                       => /\ fannedOut(bid, r)
                          /\ playsFannedOut(bid.clients, bid.rooms)

\* the first table has four clients and a deal in which seat 1 is to speak,
\* and client 1 sits at the second table
C33_Witness ==
    /\ rooms["A"].clients = {2, 3, 4, 5}
    /\ rooms["A"].gameState # NoGame
    /\ rooms["A"].gameState.biddingPlayer = 1
    /\ rooms["B"].clients = {1}
    /\ clients[2].seat = 1
    /\ chooseTrumpInRoom(clients, rooms, 2, [action |-> "take", suit |-> Undefined], 1).rooms
          # rooms

\* ---------------------------------------------------------------- C31
\* the seat whose turn it is to bid or to play in this deal; NoPlayer when
\* there is no deal or the deal is finished
turnSeat(state) ==
    IF state.phase \in BiddingPhases THEN state.biddingPlayer
    ELSE IF state.phase = "PlayingTricks" THEN state.currentPlayer
    ELSE NoPlayer

\* the deal of room r is waiting for a seat that nobody holds
waitsForVacatedSeat(cs, rs, r) ==
    /\ rs[r] # NoRoom
    /\ turnSeat(rs[r].gameState) # NoPlayer
    /\ rs[r].seats[turnSeat(rs[r].gameState)] = NoClientId

\* the cards a client may try for the deal of room r: those of the hand of
\* the seat in turn
cardsTried(rs, r) ==
    IF rs[r].gameState.phase = "PlayingTricks"
    THEN Range(rs[r].gameState.hands[rs[r].gameState.currentPlayer])
    ELSE {createDeck32[1]}

\* some bid or play of client c changes the deal of room r
advances(cs, rs, c, r) ==
    \/ \E payload \in RoomBids :
          chooseTrumpInRoom(cs, rs, c, payload, 1).rooms[r].gameState # rs[r].gameState
    \/ \E card \in cardsTried(rs, r) :
          playCardInRoom(cs, rs, c, card).rooms[r].gameState # rs[r].gameState

C32_MalformedAnswered ==
    \A c \in ClientIds, message \in Malformed :
        clients[c].connected
        => LET after == handleMalformed(clients, rooms, c, message)
           IN /\ send(c, "error") \in after.sent
              /\ after.rooms = rooms
              /\ after.clients = clients
              /\ ~after.thrown

====
